---- MODULE Spec2Model ----
(***************************************************************************)
(* Model of the review-analysis pipeline of Local-Reputation-Agent:        *)
(* sentiment-analysis/sentiment_rules.py (contract enforcement),           *)
(* run_analysis.py (deduplication, fusion, main loop) and the signal       *)
(* extractors it calls.                                                    *)
(*                                                                         *)
(* Strings are TLA+ strings; scores are integers in ten-thousandths        *)
(* (the pipeline rounds every score to 4 decimals).                        *)
(***************************************************************************)
EXTENDS Integers, Sequences, FiniteSets, TLC

VARIABLES
    pc,          \* control position of the harness or of main
    record,      \* the analysis record being worked on
    input,       \* the record as it was passed to enforce_contract
    once,        \* the record returned by the first enforce_contract call
    fault,       \* the assertion that failed, "none" if none did
    reviews,     \* main: the reviews variable (loaded, then deduplicated)
    dupe_count,  \* main: duplicates counted by _deduplicate_reviews
    idx,         \* main: position of the loop over the reviews
    det,         \* main: the record before fusion
    llm_result,  \* main: the llm_result returned by gemini_analyze
    results,     \* main: records appended so far
    csv_rows,    \* the rows of reviews.csv as csv.DictReader yields them
    seen_ids,    \* run_cycle: seen, the review_ids get_seen_ids returned
    new_reviews, \* run_cycle: the reviews that are not in seen
    drafted,     \* run_cycle: drafts made so far in this cycle
    calls        \* run_cycle: calls made to db and to response_agent, in order

harness_vars == <<pc, record, input, once, fault>>

main_vars == <<reviews, dupe_count, idx, det, llm_result, results>>

main_vars_but_llm == <<reviews, dupe_count, idx, det, results>>

cycle_vars == <<csv_rows, seen_ids, new_reviews, drafted, calls>>

vars == <<pc, record, input, once, fault,
          reviews, dupe_count, idx, det, llm_result, results,
          csv_rows, seen_ids, new_reviews, drafted, calls>>

\* Nothing was read from a file and no cycle of the agent has run.
NotLoaded ==
    /\ csv_rows = <<>>
    /\ seen_ids = {}
    /\ new_reviews = <<>>
    /\ drafted = 0
    /\ calls = <<>>

(***************************************************************************)
(* Bounds of the model.                                                    *)
(***************************************************************************)
MaxMentions == 1

MaxReviews == 2

(***************************************************************************)
(* Enumerations of the data model.                                         *)
(***************************************************************************)
Sentiments == {"Positive", "Neutral", "Negative"}

AspectSentiments == {"positive", "neutral", "negative"}

Confidences == {"LOW", "MEDIUM", "HIGH"}

Ratings == 1..5

AspectNames == {"food", "service", "hygiene", "price", "ambience", "safety"}

UrgencyCategories ==
    {"food_poisoning", "hygiene_severe", "authority_escalation",
     "safety_concern", "rude_staff"}

\* Python's None.  No text, category or label of the model equals it.
None == "None"

NoRecord == [review_id |-> "none"]

(***************************************************************************)
(* String helpers: str.lower(), " ".join(list), `sub in text`.             *)
(***************************************************************************)
UpperCase == "ABCDEFGHIJKLMNOPQRSTUVWXYZ"

LowerCase == "abcdefghijklmnopqrstuvwxyz"

Chars(s) == {SubSeq(s, i, i) : i \in 1..Len(s)}

UpperChars == Chars(UpperCase)

LowerOf ==
    [c \in UpperChars |->
        LET i == CHOOSE j \in 1..26 : SubSeq(UpperCase, j, j) = c
        IN  SubSeq(LowerCase, i, i)]

LowerChar(c) == IF c \in UpperChars THEN LowerOf[c] ELSE c

\* str.lower(), character by character
RECURSIVE Lower(_)
Lower(s) ==
    IF Len(s) = 0 THEN ""
    ELSE IF Len(s) = 1 THEN LowerChar(s)
    ELSE LET h == Len(s) \div 2
         IN  Lower(SubSeq(s, 1, h)) \o Lower(SubSeq(s, h + 1, Len(s)))

\* The least element of a non-empty set of positions.
First(S) == CHOOSE i \in S : \A j \in S : i <= j

RECURSIVE Join(_)
Join(strs) ==
    IF Len(strs) = 0 THEN ""
    ELSE IF Len(strs) = 1 THEN strs[1]
    ELSE strs[1] \o " " \o Join(Tail(strs))

\* text[i-1:].startswith(sub), positions counted from 1
StartsAt(text, i, sub) ==
    /\ i + Len(sub) - 1 <= Len(text)
    /\ SubSeq(text, i, i + Len(sub) - 1) = sub

Contains(text, sub) ==
    \E i \in 1..(Len(text) - Len(sub) + 1) : StartsAt(text, i, sub)

\* End of the run of non-space characters that starts at i.
RunEnd(text, i) ==
    LET stops == {j \in i..Len(text) : SubSeq(text, j, j) = " "}
    IN  IF stops = {} THEN Len(text) ELSE First(stops) - 1

\* First position from i on that is not a space (Len(text) + 1 if none).
SkipSpaces(text, i) ==
    LET starts == {j \in i..Len(text) : SubSeq(text, j, j) # " "}
    IN  IF starts = {} THEN Len(text) + 1 ELSE First(starts)

\* str.split(): the maximal runs of non-space characters, in order.
RECURSIVE SplitFrom(_, _)
SplitFrom(s, i) ==
    LET b == SkipSpaces(s, i)
    IN  IF b > Len(s) THEN <<>>
        ELSE <<SubSeq(s, b, RunEnd(s, b))>> \o SplitFrom(s, RunEnd(s, b) + 1)

Split(s) == SplitFrom(s, 1)

\* set(text.lower().split())
Words(text) == LET ws == Split(Lower(text)) IN {ws[i] : i \in DOMAIN ws}

\* str.strip() for texts whose only whitespace is the space character.
Strip(s) ==
    LET solid == {j \in 1..Len(s) : SubSeq(s, j, j) # " "}
    IN  IF solid = {} THEN ""
        ELSE SubSeq(s, First(solid), CHOOSE j \in solid : \A k \in solid : k <= j)

\* Variant: only the empty string counts as blank.
IsBlank_empty_only(text) == text = None \/ text = ""

\* `not review_text or not review_text.strip()`: None and "" are falsy.
IsBlank(text) == text = None \/ Strip(text) = ""

\* The characters the regular expression class \w matches (ASCII).
WordChars ==
    Chars("abcdefghijklmnopqrstuvwxyzABCDEFGHIJKLMNOPQRSTUVWXYZ0123456789_")

IsWordChar(c) == c \in WordChars

\* The substrings of text that lie between two word boundaries (\b) and
\* start and end with a word character.
WordSpans(text) ==
    LET starts == {i \in 1..Len(text) :
                      /\ IsWordChar(SubSeq(text, i, i))
                      /\ (i = 1 \/ ~IsWordChar(SubSeq(text, i - 1, i - 1)))}
        ends == {j \in 1..Len(text) :
                    /\ IsWordChar(SubSeq(text, j, j))
                    /\ (j = Len(text) \/ ~IsWordChar(SubSeq(text, j + 1, j + 1)))}
    IN  {SubSeq(text, p[1], p[2]) : p \in {q \in starts \X ends : q[1] <= q[2]}}

\* re.search(r"\b" + kw + r"\b", text) for a keyword that starts and ends
\* with a word character.
WordMatch(text, kw) == kw \in WordSpans(text)

Max(a, b) == IF a >= b THEN a ELSE b

Min(a, b) == IF a <= b THEN a ELSE b

Abs(a) == IF a >= 0 THEN a ELSE -a

(***************************************************************************)
(* sentiment_rules.py                                                      *)
(***************************************************************************)
_COMPLAINT_INDICATORS ==
    {"poor", "bad", "worst", "terrible", "horrible", "dirty", "filthy",
     "rude", "slow", "concern", "issue", "issues", "problem", "unsafe",
     "improvement", "improve", "nonexistent", "stained", "flies",
     "cockroach", "unhygienic", "careless", "negligent", "shouting",
     "disrespectful", "mannerless", "pathetic", "disgusting",
     "not clean", "no railing", "negative"}

EnforcedAspects == {"hygiene", "safety", "service"}

\* Variant: the joined mentions are not lower-cased before the search.
has_complaint_case_sensitive(mentions) ==
    LET mentions_text == Join(mentions)
    IN  \E ind \in _COMPLAINT_INDICATORS : Contains(mentions_text, ind)

has_complaint(mentions) ==
    LET mentions_text == Lower(Join(mentions))
    IN  \E ind \in _COMPLAINT_INDICATORS : Contains(mentions_text, ind)

\* One iteration of the loop body of _enforce_aspect_sentiments.
EnforceAspect(data, rating) ==
    IF /\ data.sentiment \in {"positive", "neutral"}
       /\ (has_complaint(data.mentions) \/ rating <= 2)
    THEN [data EXCEPT !.sentiment = "negative",
                      !.score = IF data.score > 0 THEN -Abs(data.score)
                                ELSE data.score]
    ELSE data

\* Variant: rule 7 is applied to every aspect of the record.
_enforce_aspect_sentiments_every_aspect(rec) ==
    [rec EXCEPT !.aspect_sentiments =
        [a \in DOMAIN rec.aspect_sentiments |->
            EnforceAspect(rec.aspect_sentiments[a], rec.rating)]]

_enforce_aspect_sentiments(rec) ==
    [rec EXCEPT !.aspect_sentiments =
        [a \in DOMAIN rec.aspect_sentiments |->
            IF a \in EnforcedAspects
            THEN EnforceAspect(rec.aspect_sentiments[a], rec.rating)
            ELSE rec.aspect_sentiments[a]]]

\* Variant: rule 1 fires on a Positive label only.
Rule1_positive_only(rec) ==
    IF rec.urgent /\ rec.overall_sentiment = "Positive"
    THEN [rec EXCEPT !.overall_sentiment = "Negative", !.rating_override = TRUE]
    ELSE rec

Rule1(rec) ==
    IF rec.urgent /\ rec.overall_sentiment # "Negative"
    THEN [rec EXCEPT !.overall_sentiment = "Negative", !.rating_override = TRUE]
    ELSE rec

\* Variant: rule 2 with a strict comparison.
Rule2_above_seven(rec) ==
    IF rec.severity_score > 7 /\ rec.overall_sentiment # "Negative"
    THEN [rec EXCEPT !.overall_sentiment = "Negative", !.rating_override = TRUE]
    ELSE rec

Rule2(rec) ==
    IF rec.severity_score >= 7 /\ rec.overall_sentiment # "Negative"
    THEN [rec EXCEPT !.overall_sentiment = "Negative", !.rating_override = TRUE]
    ELSE rec

\* Variant: rule 3 with a strict comparison.
Rule3_below_two(rec) ==
    IF rec.rating < 2 /\ rec.overall_sentiment = "Positive"
    THEN [rec EXCEPT !.overall_sentiment = "Negative", !.rating_override = TRUE]
    ELSE rec

Rule3(rec) ==
    IF rec.rating <= 2 /\ rec.overall_sentiment = "Positive"
    THEN [rec EXCEPT !.overall_sentiment = "Negative", !.rating_override = TRUE]
    ELSE rec

\* Variant: rule 4 makes every rating-3 label Neutral.
Rule4_always_neutral(rec) ==
    IF rec.rating = 3 /\ rec.overall_sentiment # "Neutral"
    THEN [rec EXCEPT !.overall_sentiment = "Neutral", !.rating_override = TRUE]
    ELSE rec

Rule4(rec) ==
    IF rec.rating = 3 /\ rec.overall_sentiment = "Positive"
    THEN [rec EXCEPT !.overall_sentiment = "Neutral", !.rating_override = TRUE]
    ELSE rec

\* Variant: rule 6 lowers the confidence by one level on every call.
Rule6_one_level(rec) ==
    IF rec.urgency_reason = "food_poisoning" /\ rec.confidence # "LOW"
    THEN [rec EXCEPT !.confidence = IF @ = "HIGH" THEN "MEDIUM" ELSE "LOW"]
    ELSE rec

\* Variant: rule 6 demotes HIGH to LOW.
Rule6_to_low(rec) ==
    IF rec.urgency_reason = "food_poisoning" /\ rec.confidence = "HIGH"
    THEN [rec EXCEPT !.confidence = "LOW"]
    ELSE rec

Rule6(rec) ==
    IF rec.urgency_reason = "food_poisoning" /\ rec.confidence = "HIGH"
    THEN [rec EXCEPT !.confidence = "MEDIUM"]
    ELSE rec

\* enforce_contract mutates the record in place; a failed assertion leaves
\* the mutations made before it.  Result: the record and the assertion that
\* failed ("none" when the function returned).
enforce_contract(rec) ==
    IF rec.confidence \notin Confidences
    THEN [rec |-> rec, fault |-> "confidence"]
    ELSE LET r4 == Rule4(Rule3(Rule2(Rule1(rec))))
         IN  IF r4.urgent /\ r4.overall_sentiment = "Positive"
             THEN [rec |-> r4, fault |-> "urgent_positive"]
             ELSE [rec |-> _enforce_aspect_sentiments(Rule6(r4)),
                   fault |-> "none"]

(***************************************************************************)
(* config.py: urgency patterns, thresholds.                                *)
(***************************************************************************)
\* URGENCY_PATTERNS in dict (insertion) order.
URGENCY_PATTERNS ==
    << [category |-> "food_poisoning", severity |-> 10,
        keywords |-> <<"food poisoning", "poisoning", "hospitalized",
                       "hospitalised", "hospital", "fell sick",
                       "severe stomach", "gut issues", "vomiting", "diarrhea",
                       "diarrhoea", "food borne", "foodborne", "toxic">>],
       [category |-> "hygiene_severe", severity |-> 9,
        keywords |-> <<"dirty kitchen", "filthy", "flies in", "cockroach",
                       "unwashed", "stained plates", "insect", "unhygienic",
                       "not clean">>],
       [category |-> "authority_escalation", severity |-> 8,
        keywords |-> <<"fssai", "health department", "health inquiry",
                       "health inspector", "legal action", "legal notice",
                       "complaint to", "report to", "consumer court",
                       "food safety", "inspection", "authority">>],
       [category |-> "safety_concern", severity |-> 7,
        keywords |-> <<"unsafe", "no railing", "broken stairs", "accident",
                       "injury", "hazard", "fire safety", "emergency exit">>],
       [category |-> "rude_staff", severity |-> 6,
        keywords |-> <<"rude", "shouting", "shout", "disrespectful",
                       "mannerless", "misbehave", "misbehaved", "arguing",
                       "abusive", "arrogant", "insult", "insulted",
                       "humiliate", "humiliated">>] >>

URGENCY_THRESHOLD == 6

POSITIVE_THRESHOLD == 500

NEGATIVE_THRESHOLD == -500

RATING_OVERRIDE_ZONE == 1500

RATING_POSITIVE_MIN == 4

RATING_NEGATIVE_MAX == 2

(***************************************************************************)
(* urgency.py                                                              *)
(***************************************************************************)
_HEALTH_SAFETY_CATEGORIES ==
    {"food_poisoning", "hygiene_severe", "authority_escalation",
     "safety_concern"}

\* [kw for kw in cfg["keywords"] if kw in text_lower], as a set
KeywordMatches(cfg, text_lower) ==
    {cfg.keywords[k] : k \in {j \in DOMAIN cfg.keywords :
                                  Contains(text_lower, cfg.keywords[j])}}

\* The loop over config.URGENCY_PATTERNS.items(), from entry i on.
RECURSIVE UrgencyScan(_, _, _)
UrgencyScan(text_lower, i, acc) ==
    IF i > Len(URGENCY_PATTERNS) THEN acc
    ELSE LET cfg == URGENCY_PATTERNS[i]
             matches == KeywordMatches(cfg, text_lower)
             found == [acc EXCEPT !.all_matches = acc.all_matches \cup matches]
         IN  UrgencyScan(text_lower, i + 1,
                 IF matches = {} THEN acc
                 ELSE IF cfg.severity > acc.max_severity
                 THEN [found EXCEPT
                          !.max_severity = cfg.severity,
                          !.best_category = cfg.category,
                          !.best_is_health_safety =
                              cfg.category \in _HEALTH_SAFETY_CATEGORIES]
                 ELSE found)

\* list(set(all_matches))[:5]: at most five of the matched keywords, in the
\* set's arbitrary order; kept as a set.
FirstFive(matches) ==
    IF Cardinality(matches) <= 5 THEN matches
    ELSE CHOOSE T \in SUBSET matches : Cardinality(T) = 5

\* Variant: the rating modifier is applied to every category.
detect_urgency_modifier_for_all(review_text, rating) ==
    IF IsBlank(review_text)
    THEN [urgent |-> FALSE, urgency_reason |-> "none", severity_score |-> 0,
          matched_patterns |-> {}]
    ELSE LET scan == UrgencyScan(Lower(review_text), 1,
                         [max_severity |-> 0, best_category |-> "none",
                          all_matches |-> {}, best_is_health_safety |-> FALSE])
             max_severity ==
                 IF scan.all_matches # {}
                 THEN IF rating = 1 THEN Min(10, scan.max_severity + 1)
                      ELSE IF rating >= 4 THEN Max(0, scan.max_severity - 3)
                      ELSE scan.max_severity
                 ELSE scan.max_severity
             urgent == max_severity >= URGENCY_THRESHOLD
         IN  [urgent |-> urgent,
              urgency_reason |-> IF urgent THEN scan.best_category ELSE "none",
              severity_score |-> max_severity,
              matched_patterns |-> FirstFive(scan.all_matches)]

\* Variant: the best category is reported even when not urgent.
detect_urgency_reason_kept(review_text, rating) ==
    IF IsBlank(review_text)
    THEN [urgent |-> FALSE, urgency_reason |-> "none", severity_score |-> 0,
          matched_patterns |-> {}]
    ELSE LET scan == UrgencyScan(Lower(review_text), 1,
                         [max_severity |-> 0, best_category |-> "none",
                          all_matches |-> {}, best_is_health_safety |-> FALSE])
             max_severity ==
                 IF scan.all_matches # {} /\ ~scan.best_is_health_safety
                 THEN IF rating = 1 THEN Min(10, scan.max_severity + 1)
                      ELSE IF rating >= 4 THEN Max(0, scan.max_severity - 3)
                      ELSE scan.max_severity
                 ELSE scan.max_severity
             urgent == max_severity >= URGENCY_THRESHOLD
         IN  [urgent |-> urgent,
              urgency_reason |-> scan.best_category,
              severity_score |-> max_severity,
              matched_patterns |-> FirstFive(scan.all_matches)]

detect_urgency(review_text, rating) ==
    IF IsBlank(review_text)
    THEN [urgent |-> FALSE, urgency_reason |-> "none", severity_score |-> 0,
          matched_patterns |-> {}]
    ELSE LET scan == UrgencyScan(Lower(review_text), 1,
                         [max_severity |-> 0, best_category |-> "none",
                          all_matches |-> {}, best_is_health_safety |-> FALSE])
             max_severity ==
                 IF scan.all_matches # {} /\ ~scan.best_is_health_safety
                 THEN IF rating = 1 THEN Min(10, scan.max_severity + 1)
                      ELSE IF rating >= 4 THEN Max(0, scan.max_severity - 3)
                      ELSE scan.max_severity
                 ELSE scan.max_severity
             urgent == max_severity >= URGENCY_THRESHOLD
         IN  [urgent |-> urgent,
              urgency_reason |-> IF urgent THEN scan.best_category ELSE "none",
              severity_score |-> max_severity,
              matched_patterns |-> FirstFive(scan.all_matches)]

(***************************************************************************)
(* preprocessing.py (texts are ASCII, so NFC normalisation changes nothing; *)
(* the smart-quote contractions cannot occur in them).                     *)
(***************************************************************************)
_CONTRACTIONS ==
    << <<"don't", "do not">>, <<"doesn't", "does not">>,
       <<"didn't", "did not">>, <<"won't", "will not">>,
       <<"wouldn't", "would not">>, <<"couldn't", "could not">>,
       <<"shouldn't", "should not">>, <<"isn't", "is not">>,
       <<"aren't", "are not">>, <<"wasn't", "was not">>,
       <<"weren't", "were not">>, <<"hasn't", "has not">>,
       <<"haven't", "have not">>, <<"hadn't", "had not">>,
       <<"can't", "cannot">>, <<"it's", "it is">>, <<"that's", "that is">>,
       <<"there's", "there is">>, <<"they're", "they are">>,
       <<"we're", "we are">>, <<"you're", "you are">>, <<"i'm", "i am">>,
       <<"i've", "i have">>, <<"i'll", "i will">>, <<"let's", "let us">> >>

\* Length of the prefix that _URL_PATTERN (https?://\S+|www\.\S+, ignoring
\* case) matches at position i of text, 0 if it does not match there.
UrlLenAt(text, low, i) ==
    LET pre == IF StartsAt(low, i, "http://") THEN 7
               ELSE IF StartsAt(low, i, "https://") THEN 8
               ELSE IF StartsAt(low, i, "www.") THEN 4
               ELSE 0
    IN  IF pre = 0 THEN 0
        ELSE IF RunEnd(text, i + pre) < i + pre THEN 0
        ELSE RunEnd(text, i + pre) - i + 1

\* _URL_PATTERN.sub("", text) from position i on
RECURSIVE StripUrlsFrom(_, _, _)
StripUrlsFrom(text, low, i) ==
    LET hits == {j \in i..Len(text) : UrlLenAt(text, low, j) > 0}
    IN  IF hits = {} THEN SubSeq(text, i, Len(text))
        ELSE SubSeq(text, i, First(hits) - 1) \o
             StripUrlsFrom(text, low,
                           First(hits) + UrlLenAt(text, low, First(hits)))

\* re.sub(re.escape(old), new, text, flags=re.IGNORECASE), old in lower case
RECURSIVE ReplaceFrom(_, _, _, _, _)
ReplaceFrom(text, low, old, new, i) ==
    LET hits == {j \in i..Len(text) : StartsAt(low, j, old)}
    IN  IF hits = {} THEN SubSeq(text, i, Len(text))
        ELSE SubSeq(text, i, First(hits) - 1) \o new \o
             ReplaceFrom(text, low, old, new, First(hits) + Len(old))

\* The loop over _CONTRACTIONS.items(), from entry k on.
\* low is text in lower case; a pass without a match leaves both as they are.
RECURSIVE ExpandContractions(_, _, _)
ExpandContractions(text, low, k) ==
    IF k > Len(_CONTRACTIONS) THEN text
    ELSE IF ~Contains(low, _CONTRACTIONS[k][1])
    THEN ExpandContractions(text, low, k + 1)
    ELSE LET replaced == ReplaceFrom(text, low, _CONTRACTIONS[k][1],
                                     _CONTRACTIONS[k][2], 1)
         IN  IF Len(replaced) = 0 THEN ""
             ELSE ExpandContractions(replaced, Lower(replaced), k + 1)

clean_text(text) ==
    IF text = "" THEN ""
    ELSE LET no_urls == StripUrlsFrom(text, Lower(text), 1)
             expanded == ExpandContractions(no_urls, Lower(no_urls), 1)
         IN  Join(Split(expanded))

(***************************************************************************)
(* hinglish_lexicon.py: polarities in ten-thousandths.                     *)
(***************************************************************************)
HINGLISH_SENTIMENT ==
    << <<"bakwas", -25000>>, <<"bekar", -20000>>, <<"bekaar", -20000>>,
       <<"ganda", -25000>>, <<"gandagi", -30000>>, <<"kharab", -20000>>,
       <<"faltu", -15000>>, <<"wahiyat", -30000>>, <<"ghatiya", -30000>>,
       <<"bura", -20000>>, <<"tatti", -35000>>, <<"mehnga", -10000>>,
       <<"mehenga", -10000>>, <<"achha", 20000>>, <<"accha", 20000>>,
       <<"acha", 20000>>, <<"badhiya", 25000>>, <<"zabardast", 30000>>,
       <<"mast", 20000>>, <<"sahi", 15000>>, <<"shaandar", 30000>>,
       <<"lajawab", 30000>>, <<"kamaal", 25000>>, <<"shandaar", 30000>>,
       <<"tagda", 20000>>, <<"sasta", 10000>>, <<"thik", 5000>>,
       <<"theek", 5000>>, <<"chalta", 3000>> >>

RECURSIVE SumOver(_, _)
SumOver(f, S) ==
    IF S = {} THEN 0
    ELSE LET x == CHOOSE y \in S : TRUE IN f[x] + SumOver(f, S \ {x})

\* Mean polarity of the lexicon words found in the text (to 1e-4).
calculate_hinglish_boost(text) ==
    LET text_lower == Lower(text)
        spans == WordSpans(text_lower)
        hits == {k \in DOMAIN HINGLISH_SENTIMENT :
                    HINGLISH_SENTIMENT[k][1] \in spans}
        polarity == [k \in DOMAIN HINGLISH_SENTIMENT |-> HINGLISH_SENTIMENT[k][2]]
    IN  IF hits = {} THEN 0
        ELSE SumOver(polarity, hits) \div Cardinality(hits)

\* HINGLISH_WEIGHT = 0.3, as the fraction 3/10 applied to ten-thousandths.
HinglishWeighted(boost) == (boost * 3) \div 10

(***************************************************************************)
(* sentiment.py.  The lexicon scorer (VADER) is an external library: its   *)
(* compound score for a text is an input of the model, in -10000..10000.   *)
(***************************************************************************)
_NEGATION_WORDS ==
    {"not", "no", "never", "neither", "nor", "nobody", "nothing", "nowhere",
     "hardly", "barely", "scarcely", "lack", "without", "cannot", "none"}

_NEGATIVE_KEYWORDS ==
    {"average", "okay", "ok", "decent", "delay", "waiting", "poor", "bad",
     "worst", "terrible", "horrible", "awful", "pathetic", "disgusting",
     "rude", "dirty", "filthy", "overpriced", "expensive", "slow",
     "declined", "decreased", "issue", "issues", "problem", "complaint",
     "concern", "unhygienic", "stained", "poisoning", "sick", "sickness",
     "shame", "avoid", "careless", "disrespectful", "mannerless",
     "shouting", "shout"}

_LONG_REVIEW_THRESHOLD == 250

\* Variant: guardrail 3 fires for every score of a 1-2 star review.
_apply_vader_guardrails_any_score(score, text, rating) ==
    LET words == Words(text)
        has_negation == _NEGATION_WORDS \cap words # {}
        has_negative_kw == _NEGATIVE_KEYWORDS \cap words # {}
        is_long == Len(text) > _LONG_REVIEW_THRESHOLD
        g1 == IF score > 0 /\ has_negation /\ has_negative_kw
              THEN -Abs(score) ELSE score
        g2 == IF g1 > 0 /\ is_long /\ has_negative_kw
              THEN Min(g1, -1000) ELSE g1
        g3 == IF rating <= 2 THEN -2000 ELSE g2
        g4 == IF g3 = 0 /\ has_negative_kw THEN -1000 ELSE g3
    IN  g4

_apply_vader_guardrails(score, text, rating) ==
    LET words == Words(text)
        has_negation == _NEGATION_WORDS \cap words # {}
        has_negative_kw == _NEGATIVE_KEYWORDS \cap words # {}
        is_long == Len(text) > _LONG_REVIEW_THRESHOLD
        g1 == IF score > 0 /\ has_negation /\ has_negative_kw
              THEN -Abs(score) ELSE score
        g2 == IF g1 > 0 /\ is_long /\ has_negative_kw
              THEN Min(g1, -1000) ELSE g1
        g3 == IF g2 > 5000 /\ rating <= 2 THEN -2000 ELSE g2
        g4 == IF g3 = 0 /\ has_negative_kw THEN -1000 ELSE g3
    IN  g4

\* Returns <<sentiment, confidence>>.
_sentiment_from_rating(rating) ==
    IF rating >= RATING_POSITIVE_MIN THEN <<"Positive", "LOW">>
    ELSE IF rating <= RATING_NEGATIVE_MAX THEN <<"Negative", "LOW">>
    ELSE <<"Neutral", "LOW">>

\* Variant: the ceiling also lifts a Negative label of a 4-5 star review.
_enforce_rating_ceiling_upgrading(sentiment, rating) ==
    IF rating <= 2 /\ sentiment # "Negative" THEN <<"Negative", TRUE>>
    ELSE IF rating = 3 /\ sentiment = "Positive" THEN <<"Neutral", TRUE>>
    ELSE IF rating >= 4 /\ sentiment = "Negative" THEN <<"Positive", TRUE>>
    ELSE <<sentiment, FALSE>>

\* Returns <<corrected_sentiment, was_clamped>>.
_enforce_rating_ceiling(sentiment, rating) ==
    IF rating <= 2 /\ sentiment # "Negative" THEN <<"Negative", TRUE>>
    ELSE IF rating = 3 /\ sentiment = "Positive" THEN <<"Neutral", TRUE>>
    ELSE <<sentiment, FALSE>>

\* Variant: a compound of exactly 0.5 counts as strongly polarised.
_calculate_confidence_at_half(vader_compound, final_score, rating, sentiment, text) ==
    LET rating_direction ==
            IF rating \in {1, 2} THEN "Negative"
            ELSE IF rating \in {4, 5} THEN "Positive"
            ELSE "Neutral"
        rating_agrees == rating_direction = sentiment
        vader_strong == Abs(vader_compound) >= 5000
        has_text == Len(Strip(text)) > 50
    IN  IF rating_agrees /\ vader_strong /\ has_text THEN "HIGH"
        ELSE IF rating_agrees THEN "MEDIUM"
        ELSE "LOW"

_calculate_confidence(vader_compound, final_score, rating, sentiment, text) ==
    LET rating_direction ==
            IF rating \in {1, 2} THEN "Negative"
            ELSE IF rating \in {4, 5} THEN "Positive"
            ELSE "Neutral"
        rating_agrees == rating_direction = sentiment
        vader_strong == Abs(vader_compound) > 5000
        has_text == Len(Strip(text)) > 50
    IN  IF rating_agrees /\ vader_strong /\ has_text THEN "HIGH"
        ELSE IF rating_agrees /\ has_text THEN "MEDIUM"
        ELSE IF rating_agrees THEN "MEDIUM"
        ELSE IF has_text /\ vader_strong THEN "LOW"
        ELSE "LOW"

\* The part of classify_sentiment that reads only the text.
PrepareText(review_text) ==
    [cleaned |-> clean_text(review_text),
     hinglish_boost |-> calculate_hinglish_boost(review_text)]

\* Variant: the override zone is as wide as the neutral band.
TextSentiment_narrow_zone(final_score, rating) ==
    IF Abs(final_score) < POSITIVE_THRESHOLD
    THEN _sentiment_from_rating(rating)[1]
    ELSE IF final_score > POSITIVE_THRESHOLD THEN "Positive"
    ELSE IF final_score < NEGATIVE_THRESHOLD THEN "Negative"
    ELSE "Neutral"

\* The label of the guarded score: from the rating inside the override
\* zone, from the thresholds outside it.
TextSentiment(final_score, rating) ==
    IF Abs(final_score) < RATING_OVERRIDE_ZONE
    THEN _sentiment_from_rating(rating)[1]
    ELSE IF final_score > POSITIVE_THRESHOLD THEN "Positive"
    ELSE IF final_score < NEGATIVE_THRESHOLD THEN "Negative"
    ELSE "Neutral"

\* The result of classify_sentiment, ceiling being what
\* _enforce_rating_ceiling returned for the label of the guarded score.
ClassifyResult(vader, final_score, rating, ceiling, cleaned) ==
    [overall_sentiment |-> ceiling[1],
     vader_compound |-> vader,
     final_score |-> final_score,
     rating_override |-> Abs(final_score) < RATING_OVERRIDE_ZONE \/ ceiling[2],
     confidence |-> _calculate_confidence(vader, final_score, rating,
                                          ceiling[1], cleaned)]

\* classify_sentiment from the guarded score on.
ClassifyScored(vader, final_score, rating, cleaned) ==
    ClassifyResult(vader, final_score, rating,
                   _enforce_rating_ceiling(TextSentiment(final_score, rating),
                                           rating),
                   cleaned)

\* classify_sentiment, given what PrepareText found in the text.
\* vader: the lexicon scorer's compound for the normalised text.
ClassifyPrepared(review_text, prepared, rating, vader) ==
    IF IsBlank(review_text)
    THEN [overall_sentiment |-> _sentiment_from_rating(rating)[1],
          vader_compound |-> 0,
          final_score |-> 0,
          rating_override |-> TRUE,
          confidence |-> _sentiment_from_rating(rating)[2]]
    ELSE ClassifyScored(
             vader,
             _apply_vader_guardrails(
                 Max(-10000, Min(10000,
                     vader + HinglishWeighted(prepared.hinglish_boost))),
                 prepared.cleaned, rating),
             rating, prepared.cleaned)

classify_sentiment(review_text, rating, vader) ==
    ClassifyPrepared(review_text, PrepareText(review_text), rating, vader)

(***************************************************************************)
(* aspects.py.  The compound of each sentence is an input (see above).     *)
(***************************************************************************)
\* ASPECT_KEYWORDS of config.py, in dict order.
ASPECT_KEYWORDS ==
    << [aspect |-> "food", keywords |->
          {"food", "taste", "tasty", "dish", "dishes", "meal", "meals",
           "breakfast", "lunch", "dinner", "snack", "menu", "delicious",
           "flavour", "flavor", "spicy", "bland", "oily", "crispy", "fresh",
           "stale", "undercooked", "overcooked", "portion", "quantity",
           "dosa", "idli", "idly", "vada", "sambar", "chutney", "pongal",
           "upma", "rice", "bisibele", "bath", "roti", "rotti", "bajji",
           "coffee", "tea", "filter coffee", "ghee", "butter", "puri",
           "sagu", "poori", "kesari", "khara",
           "khana", "khaana", "khane", "swad", "swaad"}],
       [aspect |-> "service", keywords |->
          {"service", "staff", "waiter", "server", "manager", "wait",
           "waiting", "slow", "fast", "quick", "rude", "polite", "friendly",
           "helpful", "attentive", "cashier", "billing", "order", "delivery",
           "self-service", "counter",
           "seva", "kaam", "behave", "behavior", "behaviour"}],
       [aspect |-> "hygiene", keywords |->
          {"hygiene", "hygienic", "clean", "cleanliness", "dirty", "filthy",
           "wash", "unwashed", "sanitize", "sanitise", "flies", "cockroach",
           "insect", "stain", "stained", "plates", "utensils", "stomach",
           "food poisoning", "poisoning", "sick", "vomit", "diarrhea",
           "diarrhoea", "infection",
           "saaf", "safai", "ganda", "gandagi"}],
       [aspect |-> "price", keywords |->
          {"price", "pricing", "expensive", "cheap", "cost", "costly",
           "value", "money", "worth", "overpriced", "affordable", "budget",
           "rupee", "rupees", "rs", "inr",
           "mehnga", "mehenga", "sasta", "daam", "paisa"}],
       [aspect |-> "ambience", keywords |->
          {"ambience", "ambiance", "atmosphere", "decor", "decoration",
           "seating", "seat", "space", "spacious", "crowded", "crowd",
           "packed", "location", "parking", "interior", "exterior", "vibe",
           "music", "noise", "noisy", "lake", "view",
           "mahaul", "jagah"}],
       [aspect |-> "safety", keywords |->
          {"safety", "safe", "unsafe", "railing", "stairs", "staircase",
           "accident", "injury", "hazard", "fire", "emergency", "security",
           "guard"}] >>

_NEGATION_SINGLES ==
    {"not", "no", "never", "neither", "nor", "nobody", "nothing", "nowhere",
     "hardly", "barely", "scarcely", "lack", "without", "absent",
     "nonexistent", "none", "cannot"}

_NEGATIVE_INDICATORS ==
    {"average", "okay", "ok", "decent", "delay", "delayed", "waiting",
     "poor", "bad", "worst", "terrible", "horrible", "awful", "pathetic",
     "disgusting", "concern", "issue", "issues", "problem", "problems",
     "complaint", "dirty", "filthy", "stained", "flies", "cockroach",
     "rude", "shouting", "shout", "disrespectful", "mannerless",
     "slow", "careless", "negligent", "unsafe", "hazard", "danger",
     "improvement", "improve", "needs", "lacking", "nonexistent",
     "negative", "unhygienic", "unclean", "declined", "decreased",
     "overpriced", "expensive"}

_COMPLAINT_SENSITIVE_ASPECTS == {"hygiene", "safety", "service"}

Digits == Chars("0123456789")

IsDigit(c) == c \in Digits

\* End of the run of digits that starts at i (i - 1 if there is none).
DigitsEnd(text, i) ==
    LET stops == {j \in i..Len(text) : ~IsDigit(SubSeq(text, j, j))}
    IN  IF stops = {} THEN Len(text) ELSE First(stops) - 1

\* The lookahead (?=\d+\.\s) holds at position i.
NumberedItemAt(text, i) ==
    LET e == DigitsEnd(text, i)
    IN  e >= i /\ StartsAt(text, e + 1, ". ")

\* A piece of re.split, stripped; empty pieces are dropped.
Piece(cur) == IF Strip(cur) = "" THEN <<>> ELSE <<Strip(cur)>>

\* (?<=[.!?])\s+ matches at position i.
AfterPunctuation(text, i) ==
    /\ SubSeq(text, i, i) = " "
    /\ i > 1
    /\ SubSeq(text, i - 1, i - 1) \in {".", "!", "?"}

\* re.split(r"(?<=[.!?])\s+|\n+|(?=\d+\.\s)", text) on a text whose only
\* whitespace is the space character: the pieces from position b on.
RECURSIVE SplitSentencesFrom(_, _)
SplitSentencesFrom(text, b) ==
    LET cuts == {j \in b..Len(text) :
                    \/ AfterPunctuation(text, j)
                    \/ (j > b /\ NumberedItemAt(text, j))}
        j == First(cuts)
    IN  IF b > Len(text) THEN <<>>
        ELSE IF cuts = {} THEN Piece(SubSeq(text, b, Len(text)))
        ELSE Piece(SubSeq(text, b, j - 1)) \o
             SplitSentencesFrom(text,
                 IF AfterPunctuation(text, j) THEN SkipSpaces(text, j) ELSE j)

_split_sentences(text) ==
    LET sentences == SplitSentencesFrom(text, 1)
    IN  IF sentences # <<>> THEN sentences ELSE <<text>>

_sentence_has_negation(sentence) ==
    _NEGATION_SINGLES \cap Words(sentence) # {}

_sentence_has_negative_indicators(sentence) ==
    _NEGATIVE_INDICATORS \cap Words(sentence) # {}

\* vader: the scorer's compound for the normalised sentence.
\* The three corrections of _score_sentence, in order.
NegationFlip(compound, has_negation) ==
    IF compound > 0 /\ has_negation THEN -Abs(compound) ELSE compound

ForbiddenPositive(compound, aspect, has_neg_indicators) ==
    IF aspect \in _COMPLAINT_SENSITIVE_ASPECTS /\ has_neg_indicators /\ compound > 0
    THEN -3000 ELSE compound

ScoreFloor(compound, has_neg_indicators) ==
    IF has_neg_indicators /\ compound > 0 THEN Min(compound, 0) ELSE compound

ComplaintNudge(compound, has_neg_indicators) ==
    IF has_neg_indicators /\ compound >= 0 THEN -1000 ELSE compound

CorrectedScore(vader, aspect, has_negation, has_neg_indicators) ==
    ComplaintNudge(
        ScoreFloor(
            ForbiddenPositive(NegationFlip(vader, has_negation), aspect,
                              has_neg_indicators),
            has_neg_indicators),
        has_neg_indicators)

_score_sentence(sentence, aspect, vader) ==
    CorrectedScore(vader, aspect, _sentence_has_negation(sentence),
                   _sentence_has_negative_indicators(sentence))

\* _ASPECT_PATTERNS[aspect].search(sentence), given the word spans of the
\* lower-cased sentence (the pattern ignores case).
AspectMatches(cfg, spans) == spans \cap cfg.keywords # {}

\* Indices (in order) of the sentences that mention the aspect.
RECURSIVE MatchedFrom(_, _, _)
MatchedFrom(cfg, spans, i) ==
    IF i > Len(spans) THEN <<>>
    ELSE (IF AspectMatches(cfg, spans[i]) THEN <<i>> ELSE <<>>)
         \o MatchedFrom(cfg, spans, i + 1)

RECURSIVE SeqSum(_)
SeqSum(q) == IF q = <<>> THEN 0 ELSE Head(q) + SeqSum(Tail(q))

\* round(total / n, 0) on ten-thousandths
RoundDiv(total, n) == (2 * total + n) \div (2 * n)

AspectConfig(a) ==
    ASPECT_KEYWORDS[CHOOSE k \in DOMAIN ASPECT_KEYWORDS :
                        ASPECT_KEYWORDS[k].aspect = a]

\* The word spans of each sentence, lower-cased.
SentenceSpans(sentences) ==
    [i \in DOMAIN sentences |-> WordSpans(Lower(sentences[i]))]

\* For each aspect mentioned, the indices of the sentences that mention it.
AspectSentences(spans) ==
    LET matched == [a \in AspectNames |-> MatchedFrom(AspectConfig(a), spans, 1)]
    IN  [a \in {b \in AspectNames : matched[b] # <<>>} |-> matched[a]]

CollectFrom(sentences) ==
    [sentences |-> sentences,
     aspect_sentences |-> AspectSentences(SentenceSpans(sentences))]

\* First loop of detect_aspects: the sentences of the cleaned text and, for
\* each aspect mentioned, the indices of the sentences that mention it.
CollectAspectSentences(review_text) ==
    CollectFrom(_split_sentences(clean_text(review_text)))

\* The entry of one aspect: total and n are the sum and the number of its
\* sentence scores.
AspectEntry(total, n, sentences, at) ==
    [sentiment |-> IF total > POSITIVE_THRESHOLD * n THEN "positive"
                   ELSE IF total < NEGATIVE_THRESHOLD * n THEN "negative"
                   ELSE "neutral",
     score |-> RoundDiv(total, n),
     mentions |-> [k \in 1..Min(3, n) |-> sentences[at[k]]]]

\* Second loop of detect_aspects: score and label one aspect.
\* svader[i]: the scorer's compound for sentence i of the cleaned text.
ScoreAspect(aspect, sentences, at, svader) ==
    AspectEntry(
        SeqSum([k \in DOMAIN at |->
                   _score_sentence(sentences[at[k]], aspect, svader[at[k]])]),
        Len(at), sentences, at)

ScoreAspects(collected, svader) ==
    [aspects_detected |-> DOMAIN collected.aspect_sentences,
     aspect_sentiments |->
         [a \in DOMAIN collected.aspect_sentences |->
             ScoreAspect(a, collected.sentences,
                         collected.aspect_sentences[a], svader)]]

\* detect_aspects, given what its first loop collected.
DetectCollected(review_text, collected, svader) ==
    IF IsBlank(review_text)
    THEN [aspects_detected |-> {}, aspect_sentiments |-> [a \in {} |-> 0]]
    ELSE ScoreAspects(collected, svader)

detect_aspects(review_text, svader) ==
    DetectCollected(review_text, CollectAspectSentences(review_text), svader)

(***************************************************************************)
(* run_analysis.py                                                         *)
(***************************************************************************)
\* The "no opinion" result (None) of gemini_agent.analyze_review.
NoOpinion == [is_none |-> TRUE]

\* Variant: a row is a duplicate only when the whole row was seen before.
DedupFrom_by_row(rows, i, seen) ==
    LET keep == {k \in i..Len(rows) : \A j \in 1..(k - 1) : rows[j] # rows[k]}
        nth(n) == CHOOSE k \in keep : Cardinality({m \in keep : m <= k}) = n
    IN  [unique |-> [n \in 1..Cardinality(keep) |-> rows[nth(n)]],
         dupe_count |-> (Len(rows) - i + 1) - Cardinality(keep)]

\* The loop of _deduplicate_reviews from row i on, seen being the ids
\* already kept.
RECURSIVE DedupFrom(_, _, _)
DedupFrom(rows, i, seen) ==
    IF i > Len(rows) THEN [unique |-> <<>>, dupe_count |-> 0]
    ELSE IF rows[i].review_id \in seen
    THEN LET rest == DedupFrom(rows, i + 1, seen)
         IN  [unique |-> rest.unique, dupe_count |-> rest.dupe_count + 1]
    ELSE LET rest == DedupFrom(rows, i + 1, seen \cup {rows[i].review_id})
         IN  [unique |-> <<rows[i]>> \o rest.unique,
              dupe_count |-> rest.dupe_count]

_deduplicate_reviews(rows) == DedupFrom(rows, 1, {}).unique

\* any(a["aspect"] in ("hygiene", "safety") for a in llm_result["aspects"])
HasSafetyAspect(opinion) ==
    \E k \in DOMAIN opinion.aspects :
        opinion.aspects[k].aspect \in {"hygiene", "safety"}

\* Variant: a safety-related disagreement keeps the confidence.
FuseSentiment_uncapped(rec, opinion) ==
    IF rec.overall_sentiment = opinion.overall_sentiment THEN rec
    ELSE LET is_safety_related ==
                 rec.urgent \/ opinion.urgent \/ HasSafetyAspect(opinion)
         IN  [rec EXCEPT
                 !.overall_sentiment = opinion.overall_sentiment,
                 !.confidence =
                     IF is_safety_related
                     THEN rec.confidence
                     ELSE "LOW"]

FuseSentiment(rec, opinion) ==
    IF rec.overall_sentiment = opinion.overall_sentiment THEN rec
    ELSE LET is_safety_related ==
                 rec.urgent \/ opinion.urgent \/ HasSafetyAspect(opinion)
         IN  [rec EXCEPT
                 !.overall_sentiment = opinion.overall_sentiment,
                 !.confidence =
                     IF is_safety_related
                     THEN (IF rec.confidence = "HIGH" THEN "MEDIUM"
                           ELSE rec.confidence)
                     ELSE "LOW"]

InSeq(x, q) == \E k \in DOMAIN q : q[k] = x

\* Variant: the evidence is appended even when already among the mentions.
FuseAspect_always_append(det_aspects, llm_asp) ==
    LET name == llm_asp.aspect
    IN  IF name \in DOMAIN det_aspects
        THEN [det_aspects EXCEPT
                 ![name].sentiment = llm_asp.sentiment,
                 ![name].mentions =
                     IF llm_asp.evidence # ""
                     THEN Append(@, llm_asp.evidence) ELSE @]
        ELSE [a \in DOMAIN det_aspects \cup {name} |->
                 IF a = name
                 THEN [sentiment |-> llm_asp.sentiment, score |-> 0,
                       mentions |-> <<llm_asp.evidence>>]
                 ELSE det_aspects[a]]

\* One iteration of the aspect-fusion loop.
FuseAspect(det_aspects, llm_asp) ==
    LET name == llm_asp.aspect
    IN  IF name \in DOMAIN det_aspects
        THEN [det_aspects EXCEPT
                 ![name].sentiment = llm_asp.sentiment,
                 ![name].mentions =
                     IF llm_asp.evidence # "" /\ ~InSeq(llm_asp.evidence, @)
                     THEN Append(@, llm_asp.evidence) ELSE @]
        ELSE [a \in DOMAIN det_aspects \cup {name} |->
                 IF a = name
                 THEN [sentiment |-> llm_asp.sentiment, score |-> 0,
                       mentions |-> <<llm_asp.evidence>>]
                 ELSE det_aspects[a]]

RECURSIVE FuseAspects(_, _, _)
FuseAspects(det_aspects, llm_aspects, k) ==
    IF k > Len(llm_aspects) THEN det_aspects
    ELSE FuseAspects(FuseAspect(det_aspects, llm_aspects[k]), llm_aspects, k + 1)

\* Variant: the opinion's reason is adopted whenever the opinion is urgent.
FuseUrgency_reason_replaced(rec, opinion) ==
    IF opinion.urgent
    THEN [rec EXCEPT
             !.urgent = TRUE,
             !.urgency_reason = IF opinion.urgency_reason # None
                                THEN opinion.urgency_reason ELSE @]
    ELSE rec

FuseUrgency(rec, opinion) ==
    IF opinion.urgent /\ ~rec.urgent
    THEN [rec EXCEPT
             !.urgent = TRUE,
             !.urgency_reason = IF opinion.urgency_reason # None
                                THEN opinion.urgency_reason ELSE @]
    ELSE rec

\* The record is a dict: the llm_* audit keys are added by fusion.
WithAudit(rec, llm_sentiment, llm_reasoning) ==
    [k \in DOMAIN rec \cup {"llm_sentiment", "llm_reasoning"} |->
        IF k = "llm_sentiment" THEN llm_sentiment
        ELSE IF k = "llm_reasoning" THEN llm_reasoning
        ELSE rec[k]]

_fuse_results(rec, opinion) ==
    IF opinion = NoOpinion THEN WithAudit(rec, None, None)
    ELSE LET audited == WithAudit(rec, opinion.overall_sentiment,
                                  opinion.reasoning)
             fused == FuseSentiment(audited, opinion)
             det_aspects == FuseAspects(fused.aspect_sentiments,
                                        opinion.aspects, 1)
             with_aspects == [fused EXCEPT
                                 !.aspect_sentiments = det_aspects,
                                 !.aspects_detected = DOMAIN det_aspects]
         IN  FuseUrgency(with_aspects, opinion)

\* The record main builds from the three deterministic results.
BuildRecord(review, sentiment_result, aspect_result, urgency_result) ==
    [review_id |-> review.review_id,
     reviewer_name |-> review.reviewer_name,
     review_text |-> review.review_text,
     rating |-> review.rating,
     review_date |-> review.review_date,
     overall_sentiment |-> sentiment_result.overall_sentiment,
     vader_compound |-> sentiment_result.vader_compound,
     final_score |-> sentiment_result.final_score,
     confidence |-> sentiment_result.confidence,
     rating_override |-> sentiment_result.rating_override,
     aspects_detected |-> aspect_result.aspects_detected,
     aspect_sentiments |-> aspect_result.aspect_sentiments,
     urgent |-> urgency_result.urgent,
     urgency_reason |-> urgency_result.urgency_reason,
     severity_score |-> urgency_result.severity_score,
     matched_patterns |-> urgency_result.matched_patterns]

(***************************************************************************)
(* gemini_agent.py.  The service and its reply are outside the program:    *)
(* a reply is a failed call, a text that is not JSON, or the value         *)
(* json.loads returns.  A JSON value is a record tagged with its Python    *)
(* type.                                                                   *)
(***************************************************************************)
JStr(s) == [t |-> "str", s |-> s]

JNull == [t |-> "null"]

JBool(b) == [t |-> "bool", b |-> b]

JList(items) == [t |-> "list", items |-> items]

\* fields: a function from the keys of the object to JSON values
JDict(fields) == [t |-> "dict", fields |-> fields]

\* data.get(key, default)
Get(data, key, default) ==
    IF key \in DOMAIN data.fields THEN data.fields[key] ELSE default

\* `x in some_set` hashes x: a list or a dict raises TypeError.
Unhashable(v) == v.t \in {"list", "dict"}

\* v is a string of the set allowed.
StrIn(v, allowed) == v.t = "str" /\ v.s \in allowed

\* bool(v)
Truthy(v) ==
    CASE v.t = "str" -> v.s # ""
      [] v.t = "null" -> FALSE
      [] v.t = "bool" -> v.b
      [] v.t = "list" -> v.items # <<>>
      [] v.t = "dict" -> DOMAIN v.fields # {}

\* str(v), for the scalar values
Str(v) ==
    CASE v.t = "str" -> v.s
      [] v.t = "null" -> "None"
      [] v.t = "bool" -> IF v.b THEN "True" ELSE "False"

\* s[:n]
Take(s, n) == SubSeq(s, 1, Min(n, Len(s)))

\* The loop over raw_aspects from item k on; acc is clean_aspects so far.
RECURSIVE CleanAspects(_, _, _)
CleanAspects(raw_aspects, k, acc) ==
    IF k > Len(raw_aspects) THEN [raised |-> FALSE, aspects |-> acc]
    ELSE IF raw_aspects[k].t # "dict"
    THEN CleanAspects(raw_aspects, k + 1, acc)
    ELSE IF Unhashable(Get(raw_aspects[k], "aspect", JNull))
    THEN [raised |-> TRUE, aspects |-> acc]
    ELSE IF ~StrIn(Get(raw_aspects[k], "aspect", JNull), AspectNames)
    THEN CleanAspects(raw_aspects, k + 1, acc)
    ELSE IF Unhashable(Get(raw_aspects[k], "sentiment", JNull))
    THEN [raised |-> TRUE, aspects |-> acc]
    ELSE IF ~StrIn(Get(raw_aspects[k], "sentiment", JNull), AspectSentiments)
    THEN CleanAspects(raw_aspects, k + 1, acc)
    ELSE CleanAspects(raw_aspects, k + 1,
             Append(acc,
                 [aspect |-> raw_aspects[k].fields["aspect"].s,
                  sentiment |-> raw_aspects[k].fields["sentiment"].s,
                  evidence |->
                      Take(Str(Get(raw_aspects[k], "evidence", JStr(""))), 200)]))

\* raw_aspects = data.get("aspects", []), replaced by [] when not a list
RawAspects(data) ==
    IF Get(data, "aspects", JList(<<>>)).t = "list"
    THEN Get(data, "aspects", JList(<<>>)).items
    ELSE <<>>

\* The urgency fields of the validated response.
CleanReason(urgent, urgency_reason) ==
    IF ~urgent THEN None
    ELSE IF StrIn(urgency_reason, UrgencyCategories) THEN urgency_reason.s
    ELSE None

\* Outcome of a call: it raised, or it returned result (NoOpinion for None).
Raised == [raised |-> TRUE, result |-> NoOpinion]

Returns(result) == [raised |-> FALSE, result |-> result]

\* _validate_response from the aspects loop on, cleaned being its outcome.
ValidatedFrom(data, cleaned) ==
    IF cleaned.raised THEN Raised
    ELSE IF Unhashable(Get(data, "urgency_reason", JNull)) THEN Raised
    ELSE Returns(
             [overall_sentiment |-> data.fields["overall_sentiment"].s,
              aspects |-> cleaned.aspects,
              urgent |-> Truthy(Get(data, "urgent", JBool(FALSE))),
              urgency_reason |->
                  CleanReason(Truthy(Get(data, "urgent", JBool(FALSE))),
                              Get(data, "urgency_reason", JNull)),
              reasoning |-> Take(Str(Get(data, "reasoning", JStr(""))), 500)])

_validate_response(data) ==
    IF data.t # "dict" THEN Returns(NoOpinion)
    ELSE IF Unhashable(Get(data, "overall_sentiment", JNull)) THEN Raised
    ELSE IF ~StrIn(Get(data, "overall_sentiment", JNull), Sentiments)
    THEN Returns(NoOpinion)
    ELSE ValidatedFrom(data, CleanAspects(RawAspects(data), 1, <<>>))

\* _get_model: the module globals after the call.  model is "unset"
\* (_model None, _model_unavailable False), "ready" or "unavailable";
\* credentials: the package is installed and GOOGLE_API_KEY is set.
_get_model(model, credentials) ==
    IF model = "unset"
    THEN (IF credentials THEN "ready" ELSE "unavailable")
    ELSE model

\* analyze_review, given the module globals after _get_model and the
\* reply of the service.
AnalyzeWithModel(model, reply) ==
    IF model # "ready" THEN Returns(NoOpinion)
    ELSE IF reply.kind = "call_failed" THEN Returns(NoOpinion)
    ELSE IF reply.kind = "not_json" THEN Returns(NoOpinion)
    ELSE _validate_response(reply.data)

analyze_review(model, credentials, reply) ==
    AnalyzeWithModel(_get_model(model, credentials), reply)

(***************************************************************************)
(* Input records of the enforcement harness: every combination of the      *)
(* pools below, with at most one aspect entry.                             *)
(***************************************************************************)
Snippets == {"good", "Staff was RUDE"}

Scores == {-3000, 0, 6000}

SeverityPool == {0, 6, 7}

ReasonPool == {"none", "food_poisoning", "rude_staff"}

AspectPool == {"service", "hygiene", "food"}

MentionLists == UNION {[1..n -> Snippets] : n \in 0..MaxMentions}

AspectData == [sentiment : AspectSentiments, score : Scores, mentions : MentionLists]

NoAspects == [a \in {} |-> 0]

AspectMaps ==
    {NoAspects} \cup UNION {[{a} -> AspectData] : a \in AspectPool}

InputRecords ==
    [review_id : {"r1"},
     rating : Ratings,
     overall_sentiment : Sentiments,
     confidence : Confidences,
     rating_override : BOOLEAN,
     aspect_sentiments : AspectMaps,
     urgent : BOOLEAN,
     urgency_reason : ReasonPool,
     severity_score : SeverityPool]

(***************************************************************************)
(* Enforcement harness: enforce_contract applied to an arbitrary record,   *)
(* then applied again to its own result.                                   *)
(***************************************************************************)
Init ==
    /\ pc = "built"
    /\ record \in InputRecords
    /\ input = NoRecord
    /\ once = NoRecord
    /\ fault = "none"
    /\ reviews = <<>>
    /\ dupe_count = 0
    /\ idx = 0
    /\ det = NoRecord
    /\ llm_result = NoOpinion
    /\ results = <<>>
    /\ NotLoaded

Enforce ==
    /\ pc = "built"
    /\ LET out == enforce_contract(record)
       IN  /\ record' = out.rec
           /\ fault' = out.fault
           /\ pc' = IF out.fault = "none" THEN "enforced" ELSE "failed"
    /\ input' = record
    /\ once' = once
    /\ UNCHANGED main_vars
    /\ UNCHANGED cycle_vars

EnforceAgain ==
    /\ pc = "enforced"
    /\ LET out == enforce_contract(record)
       IN  /\ record' = out.rec
           /\ fault' = out.fault
           /\ pc' = IF out.fault = "none" THEN "enforced_twice" ELSE "failed"
    /\ once' = record
    /\ input' = input
    /\ UNCHANGED main_vars
    /\ UNCHANGED cycle_vars

Next == Enforce \/ EnforceAgain

Spec == Init /\ [][Next]_vars

(***************************************************************************)
(* run_analysis.main: load, deduplicate, then per row classify / detect,   *)
(* fuse with the opinion, enforce, append; finally the uniqueness          *)
(* assertion.  The scorer's compounds and the opinion are the inputs of    *)
(* each iteration.                                                         *)
(***************************************************************************)
Row(id, text, rating) ==
    [review_id |-> id, reviewer_name |-> "Asha", review_text |-> text,
     rating |-> rating, review_date |-> "2024-01-05"]

ReviewPool ==
    {Row("r1", "Staff was friendly.", 5),
     Row("r1", "", 4),
     Row("r2", "Got food poisoning. The staff was rude and didn't care at all.", 1),
     Row("r2", "No railing on the stairs", 3)}

VaderPool == {-6000, 0, 6000}

\* A finer pool of compounds for a whole review: VaderPool, the two values
\* at the edge of "strongly polarised" (0.5) and two weak ones.
CompoundPool == VaderPool \cup {-5000, -1000, 500, 5000}

Opinion(sentiment, aspects, urgent, reason) ==
    [overall_sentiment |-> sentiment, aspects |-> aspects, urgent |-> urgent,
     urgency_reason |-> reason, reasoning |-> "because"]

AspectOpinion(aspect, sentiment, evidence) ==
    [aspect |-> aspect, sentiment |-> sentiment, evidence |-> evidence]

\* Opinions as _validate_response returns them.
OpinionPool ==
    {Opinion("Positive", <<>>, FALSE, None),
     Opinion("Neutral", <<AspectOpinion("hygiene", "positive", "")>>, FALSE, None),
     Opinion("Negative", <<AspectOpinion("service", "negative", "staff was rude")>>,
             TRUE, "rude_staff"),
     Opinion("Positive", <<AspectOpinion("service", "negative", "Staff was friendly."),
                           AspectOpinion("safety", "neutral", "no railing")>>,
             TRUE, "food_poisoning")}

InputLists == UNION {[1..n -> ReviewPool] : n \in 0..MaxReviews}

MainInit ==
    /\ pc = "deduplicate"
    /\ reviews \in InputLists
    /\ dupe_count = 0
    /\ idx = 0
    /\ record = NoRecord
    /\ det = NoRecord
    /\ llm_result = NoOpinion
    /\ input = NoRecord
    /\ once = NoRecord
    /\ results = <<>>
    /\ fault = "none"
    /\ NotLoaded

Deduplicate ==
    /\ pc = "deduplicate"
    /\ reviews' = _deduplicate_reviews(reviews)
    /\ dupe_count' = DedupFrom(reviews, 1, {}).dupe_count
    /\ idx' = 1
    /\ pc' = IF reviews' = <<>> THEN "assert_unique" ELSE "analyze"
    /\ UNCHANGED <<record, input, once, fault, det, llm_result, results>>
    /\ UNCHANGED cycle_vars

\* Steps 1-3 of the loop body: the deterministic signals of row idx.
CountSentences(review_text, collected) ==
    IF IsBlank(review_text) THEN 0 ELSE Len(collected.sentences)

AnalyzeRow(review, prepared, collected, urgency_result, compounds) ==
    \E vader \in compounds :
        \E svader \in [1..CountSentences(review.review_text, collected) ->
                           VaderPool] :
            record' = BuildRecord(
                          review,
                          ClassifyPrepared(review.review_text, prepared,
                                           review.rating, vader),
                          DetectCollected(review.review_text, collected, svader),
                          urgency_result)

Analyze ==
    /\ pc = "analyze"
    /\ AnalyzeRow(reviews[idx],
                  PrepareText(reviews[idx].review_text),
                  CollectAspectSentences(reviews[idx].review_text),
                  detect_urgency(reviews[idx].review_text, reviews[idx].rating),
                  VaderPool)
    /\ pc' = "fuse"
    /\ UNCHANGED <<input, once, fault, reviews, dupe_count, idx, det, llm_result, results>>
    /\ UNCHANGED cycle_vars

\* Step 3.5: the opinion (None with --no-llm or on any failure) and fusion.
Fuse ==
    /\ pc = "fuse"
    /\ \E opinion \in OpinionPool \cup {NoOpinion} :
           /\ llm_result' = opinion
           /\ record' = _fuse_results(record, opinion)
    /\ det' = record
    /\ pc' = "enforce"
    /\ UNCHANGED <<input, once, fault, reviews, dupe_count, idx, results>>
    /\ UNCHANGED cycle_vars

\* Step 4: contract enforcement, then results.append(record).
EnforceAndAppend ==
    /\ pc = "enforce"
    /\ LET out == enforce_contract(record)
       IN  /\ record' = out.rec
           /\ fault' = out.fault
           /\ IF out.fault # "none"
              THEN /\ pc' = "failed"
                   /\ UNCHANGED <<results, idx>>
              ELSE /\ results' = Append(results, out.rec)
                   /\ idx' = idx + 1
                   /\ pc' = IF idx < Len(reviews) THEN "analyze"
                            ELSE "assert_unique"
    /\ input' = record
    /\ UNCHANGED <<once, reviews, dupe_count, det, llm_result>>
    /\ UNCHANGED cycle_vars

\* assert len(results) == len({r["review_id"] for r in results}), then save.
AssertUnique ==
    /\ pc = "assert_unique"
    /\ IF Len(results) = Cardinality({results[k].review_id : k \in DOMAIN results})
       THEN pc' = "saved" /\ fault' = fault
       ELSE pc' = "failed" /\ fault' = "duplicate_review_id"
    /\ UNCHANGED <<record, input, once, reviews, dupe_count, idx, det, llm_result, results>>
    /\ UNCHANGED cycle_vars

MainNext == Deduplicate \/ Analyze \/ Fuse \/ EnforceAndAppend \/ AssertUnique

MainSpec == MainInit /\ [][MainNext]_vars

(***************************************************************************)
(* run_analysis.main on a file of one review: every text of TextPool with  *)
(* every rating, rows as load_reviews returns them (integer rating, text a *)
(* string, "" for an empty field).                                         *)
(***************************************************************************)
\* A review of more than 250 characters that holds a negative keyword
\* ("slow") and no negation word.
LongComplaint ==
    "We came here for dinner with the whole family on a weekend and honestly "
    \o "the place looked great from outside and the menu had so many good "
    \o "options but the food took more than an hour to arrive and the service "
    \o "was slow and when the order finally came half of it was wrong"

TextPool ==
    {"", " ",
     "Staff was friendly.",
     "The waiter was rude",
     "No railing on the stairs",
     "Food was bakwas",
     "Saw a cockroach",
     "Will report to FSSAI",
     "Got food poisoning. The staff was rude and didn't care at all.",
     "The food was cold and the waiter took forty minutes to bring it.",
     "Staff was great. Service was slow today. Waiter was nice.",
     LongComplaint}

ReviewInit ==
    /\ pc = "deduplicate"
    /\ reviews \in {<<Row("r1", text, rating)>> : text \in TextPool, rating \in Ratings}
    /\ dupe_count = 0
    /\ idx = 0
    /\ record = NoRecord
    /\ det = NoRecord
    /\ llm_result = NoOpinion
    /\ input = NoRecord
    /\ once = NoRecord
    /\ results = <<>>
    /\ fault = "none"
    /\ NotLoaded

\* Steps 1-3 with the finer pool of compounds.
AnalyzeReview ==
    /\ pc = "analyze"
    /\ AnalyzeRow(reviews[idx],
                  PrepareText(reviews[idx].review_text),
                  CollectAspectSentences(reviews[idx].review_text),
                  detect_urgency(reviews[idx].review_text, reviews[idx].rating),
                  CompoundPool)
    /\ pc' = "fuse"
    /\ UNCHANGED <<input, once, fault, reviews, dupe_count, idx, det, llm_result, results>>
    /\ UNCHANGED cycle_vars

\* Further opinions _validate_response can return: urgent without a reason,
\* an aspect listed twice, a disagreement about the price only.
ReviewOpinions ==
    OpinionPool \cup
    {Opinion("Negative", <<>>, TRUE, None),
     Opinion("Neutral", <<AspectOpinion("service", "positive", "good staff"),
                          AspectOpinion("service", "negative", "")>>, FALSE, None),
     Opinion("Neutral", <<AspectOpinion("price", "negative", "")>>, FALSE, None)}

\* Step 3.5 with the larger pool of opinions.
FuseReview ==
    /\ pc = "fuse"
    /\ \E opinion \in ReviewOpinions \cup {NoOpinion} :
           /\ llm_result' = opinion
           /\ record' = _fuse_results(record, opinion)
    /\ det' = record
    /\ pc' = "enforce"
    /\ UNCHANGED <<input, once, fault, reviews, dupe_count, idx, results>>
    /\ UNCHANGED cycle_vars

ReviewNext ==
    Deduplicate \/ AnalyzeReview \/ FuseReview \/ EnforceAndAppend \/ AssertUnique

ReviewSpec == ReviewInit /\ [][ReviewNext]_vars

(***************************************************************************)
(* The three detectors called directly, on texts that include None and     *)
(* blank strings and on ratings that include values outside 1-5.  input is *)
(* the pair of arguments, record the result of the call, pc the function   *)
(* that returned.                                                          *)
(***************************************************************************)
CallTexts == {None, "", " ", "   ", "Ok", "The waiter was rude"}

CallRatings == 0..6

CallInit ==
    /\ pc = "call"
    /\ input \in [review_text : CallTexts, rating : CallRatings]
    /\ record = NoRecord
    /\ once = NoRecord
    /\ fault = "none"
    /\ reviews = <<>>
    /\ dupe_count = 0
    /\ idx = 0
    /\ det = NoRecord
    /\ llm_result = NoOpinion
    /\ results = <<>>
    /\ NotLoaded

CallClassify ==
    /\ pc = "call"
    /\ \E vader \in VaderPool :
           record' = classify_sentiment(input.review_text, input.rating, vader)
    /\ pc' = "classify_sentiment"
    /\ UNCHANGED <<input, once, fault>>
    /\ UNCHANGED main_vars
    /\ UNCHANGED cycle_vars

CallAspects ==
    /\ pc = "call"
    /\ \E svader \in [1..CountSentences(input.review_text,
                            CollectAspectSentences(input.review_text)) -> VaderPool] :
           record' = detect_aspects(input.review_text, svader)
    /\ pc' = "detect_aspects"
    /\ UNCHANGED <<input, once, fault>>
    /\ UNCHANGED main_vars
    /\ UNCHANGED cycle_vars

CallUrgency ==
    /\ pc = "call"
    /\ record' = detect_urgency(input.review_text, input.rating)
    /\ pc' = "detect_urgency"
    /\ UNCHANGED <<input, once, fault>>
    /\ UNCHANGED main_vars
    /\ UNCHANGED cycle_vars

CallNext == CallClassify \/ CallAspects \/ CallUrgency

CallSpec == CallInit /\ [][CallNext]_vars

(***************************************************************************)
(* analyze_review called once, for every reply of ReplyPool and every      *)
(* state of the module globals.  input holds the reply and the globals     *)
(* before the call, llm_result what the call returned, record the globals  *)
(* after it.                                                               *)
(***************************************************************************)
\* An object with the fields whose value is given (Absent: key not present).
Absent == [t |-> "absent"]

ObjectOf(pairs) ==
    JDict([k \in {pairs[i][1] : i \in {j \in DOMAIN pairs : pairs[j][2] # Absent}} |->
              pairs[CHOOSE i \in DOMAIN pairs : pairs[i][1] = k][2]])

SentimentValues ==
    {Absent, JNull, JStr("Positive"), JStr("Negative"), JStr("positive"),
     JList(<<JStr("Positive")>>)}

AspectItems ==
    {ObjectOf(<< <<"aspect", JStr("service")>>, <<"sentiment", JStr("negative")>>,
                 <<"evidence", JStr("staff was rude")>> >>),
     ObjectOf(<< <<"aspect", JStr("safety")>>, <<"sentiment", JStr("neutral")>> >>),
     ObjectOf(<< <<"aspect", JStr("parking")>>, <<"sentiment", JStr("negative")>> >>),
     ObjectOf(<< <<"aspect", JStr("food")>>, <<"sentiment", JStr("Negative")>> >>),
     ObjectOf(<< <<"aspect", JList(<<JStr("food"), JStr("service")>>)>>,
                 <<"sentiment", JStr("positive")>> >>),
     ObjectOf(<< <<"aspect", JStr("food")>>, <<"sentiment", JDict(<<>>)>> >>),
     JStr("food")}

MaxItems == 1

AspectsValues ==
    {Absent, JStr("food")} \cup
    {JList(items) : items \in UNION {[1..n -> AspectItems] : n \in 0..MaxItems}}

UrgentValues == {Absent, JBool(TRUE), JBool(FALSE), JStr("false")}

ReasonValues ==
    {Absent, JNull, JStr("rude_staff"), JStr("angry"), JList(<<>>)}

DataPool ==
    {JList(<<>>), JStr("Positive")} \cup
    {ObjectOf(<< <<"overall_sentiment", sv>>, <<"aspects", av>>,
                 <<"urgent", uv>>, <<"urgency_reason", rv>>,
                 <<"reasoning", JStr("because")>> >>) :
        sv \in SentimentValues, av \in AspectsValues,
        uv \in UrgentValues, rv \in ReasonValues}

ReplyPool ==
    {[kind |-> "call_failed"], [kind |-> "not_json"]} \cup
    {[kind |-> "json", data |-> d] : d \in DataPool}

\* The module globals and the environment they can be in at a call.
GeminiStates ==
    {[model |-> "unset", credentials |-> TRUE],
     [model |-> "ready", credentials |-> TRUE],
     [model |-> "unset", credentials |-> FALSE],
     [model |-> "unavailable", credentials |-> FALSE]}

GeminiInit ==
    /\ pc = "call"
    /\ input \in [reply : ReplyPool, globals : GeminiStates]
    /\ record = NoRecord
    /\ once = NoRecord
    /\ fault = "none"
    /\ reviews = <<>>
    /\ dupe_count = 0
    /\ idx = 0
    /\ det = NoRecord
    /\ llm_result = NoOpinion
    /\ results = <<>>
    /\ NotLoaded

\* llm_result = gemini_analyze(text, rating, name)
GeminiAnalyze ==
    /\ pc = "call"
    /\ IF analyze_review(input.globals.model, input.globals.credentials,
                         input.reply).raised
       THEN /\ pc' = "failed"
            /\ fault' = "TypeError"
            /\ llm_result' = llm_result
       ELSE /\ pc' = "analyze_review"
            /\ fault' = fault
            /\ llm_result' = analyze_review(input.globals.model,
                                            input.globals.credentials,
                                            input.reply).result
    /\ record' = [model |-> _get_model(input.globals.model,
                                       input.globals.credentials)]
    /\ UNCHANGED <<input, once>>
    /\ UNCHANGED main_vars_but_llm
    /\ UNCHANGED cycle_vars

GeminiSpec == GeminiInit /\ [][GeminiAnalyze]_vars

(***************************************************************************)
(* Properties of enforce_contract, checked under Spec.  input is the       *)
(* record passed to the first call, record the record returned last.       *)
(***************************************************************************)
Returned == pc \in {"enforced", "enforced_twice"}

\* The aspects of rec that rule 7 covers.
Covered(rec) == EnforcedAspects \cap DOMAIN rec.aspect_sentiments

\* Some retained mention, taken by itself and ignoring case, contains a
\* complaint-indicator word.
MentionHasIndicator(mentions) ==
    \E k \in DOMAIN mentions :
        LET low == Lower(mentions[k])
        IN  \E ind \in _COMPLAINT_INDICATORS : Contains(low, ind)

\* The condition of rule 7 for aspect a of rec.
ComplaintCase(rec, a) ==
    MentionHasIndicator(rec.aspect_sentiments[a].mentions) \/ rec.rating <= 2

\* C1: every record returned by enforce_contract that is urgent has
\* overall_sentiment Negative.
C1_UrgentIsNegative ==
    Returned => (record.urgent => record.overall_sentiment = "Negative")

\* An urgent record that came in Positive, with no severity to trigger rule
\* 2, was returned Negative.
C1_Witness ==
    /\ pc = "enforced"
    /\ input.urgent /\ input.severity_score < 7 /\ input.rating >= 4
    /\ input.overall_sentiment = "Positive"
    /\ record.overall_sentiment = "Negative"

\* C2: every record returned by enforce_contract with severity_score >= 7
\* has overall_sentiment Negative.
C2_SevereIsNegative ==
    Returned => (record.severity_score >= 7 =>
                     record.overall_sentiment = "Negative")

\* A record of severity 7 that is not urgent came in Positive with a high
\* rating and was returned Negative.
C2_Witness ==
    /\ pc = "enforced"
    /\ input.severity_score = 7 /\ ~input.urgent /\ input.rating >= 4
    /\ input.overall_sentiment = "Positive"
    /\ record.overall_sentiment = "Negative"

\* C3, as the code has it: a returned record with rating <= 2 or rating = 3
\* is never Positive; a Positive input with rating <= 2 is returned Negative;
\* a Positive input with rating 3 is returned Neutral, unless it is urgent or
\* has severity >= 7, and then rules 1-2 have already made it Negative.
C3_RatingCeiling ==
    /\ Returned => (record.rating <= 3 => record.overall_sentiment # "Positive")
    /\ (pc = "enforced" /\ input.overall_sentiment = "Positive") =>
           /\ input.rating <= 2 => record.overall_sentiment = "Negative"
           /\ input.rating = 3 =>
                  record.overall_sentiment =
                      IF input.urgent \/ input.severity_score >= 7
                      THEN "Negative" ELSE "Neutral"

\* An urgent Positive input with rating 3 was returned Negative.
C3_Witness ==
    /\ pc = "enforced"
    /\ input.rating = 3 /\ input.overall_sentiment = "Positive"
    /\ input.urgent
    /\ record.overall_sentiment = "Negative"

\* C3 as stated: a returned record with rating <= 3 is never Positive, a
\* Positive input is returned Negative for rating <= 2 and Neutral for
\* rating 3.
C3_AsStated ==
    /\ Returned => (record.rating <= 3 => record.overall_sentiment # "Positive")
    /\ (pc = "enforced" /\ input.overall_sentiment = "Positive") =>
           /\ input.rating <= 2 => record.overall_sentiment = "Negative"
           /\ input.rating = 3 => record.overall_sentiment = "Neutral"

\* C4: enforce_contract applied to its own result returns that result, equal
\* in every field.
C4_Idempotent == pc = "enforced_twice" => record = once

\* The second call ran on a record whose label, confidence and an aspect the
\* first call had changed.
C4_Witness ==
    /\ pc = "enforced_twice"
    /\ once.overall_sentiment # input.overall_sentiment
    /\ once.confidence # input.confidence
    /\ once.aspect_sentiments # input.aspect_sentiments

\* C5: in every record returned by enforce_contract, a hygiene, safety or
\* service aspect with a mention that contains a complaint-indicator word,
\* or with rating <= 2, has sentiment negative.
C5_ComplaintAspectNegative ==
    Returned =>
        \A a \in Covered(record) :
            ComplaintCase(record, a) =>
                record.aspect_sentiments[a].sentiment = "negative"

\* A covered aspect labelled positive, with a high rating and an upper-case
\* complaint word in its mention, was returned negative.
C5_Witness ==
    /\ pc = "enforced"
    /\ input.rating >= 3
    /\ \E a \in Covered(input) :
           /\ input.aspect_sentiments[a].sentiment = "positive"
           /\ MentionHasIndicator(input.aspect_sentiments[a].mentions)
           /\ ~has_complaint_case_sensitive(input.aspect_sentiments[a].mentions)
           /\ record.aspect_sentiments[a].sentiment = "negative"

\* C8: enforce_contract moves overall_sentiment only toward Negative or
\* Neutral: a Positive result was Positive, a Negative input stays Negative,
\* a Neutral input comes back Neutral or Negative.
C8_OnlyTowardNegative ==
    pc = "enforced" =>
        /\ record.overall_sentiment = "Positive" =>
               input.overall_sentiment = "Positive"
        /\ input.overall_sentiment = "Negative" =>
               record.overall_sentiment = "Negative"
        /\ input.overall_sentiment = "Neutral" =>
               record.overall_sentiment \in {"Neutral", "Negative"}

\* A Negative input with rating 3 was returned Negative, and rule 4 was in
\* reach of it.
C8_Witness ==
    /\ pc = "enforced"
    /\ input.rating = 3 /\ input.overall_sentiment = "Negative"
    /\ ~input.urgent /\ input.severity_score < 7
    /\ record.overall_sentiment = "Negative"

\* C9: a returned record whose urgency_reason is food_poisoning does not
\* have confidence HIGH; HIGH came back MEDIUM, LOW and MEDIUM came back as
\* they were.
C9_FoodPoisoningNotHigh ==
    (Returned /\ record.urgency_reason = "food_poisoning") =>
        /\ record.confidence # "HIGH"
        /\ pc = "enforced" =>
               record.confidence = IF input.confidence = "HIGH" THEN "MEDIUM"
                                   ELSE input.confidence

\* A food_poisoning record that came in HIGH was returned MEDIUM.
C9_Witness ==
    /\ pc = "enforced"
    /\ input.urgency_reason = "food_poisoning" /\ input.confidence = "HIGH"
    /\ record.confidence = "MEDIUM"

(***************************************************************************)
(* Properties of the pipeline, checked under MainSpec.  After              *)
(* EnforceAndAppend, input is the fused record that was passed to          *)
(* enforce_contract and record the record it returned and main appended.   *)
(***************************************************************************)
Appended == pc \in {"analyze", "assert_unique", "saved"} /\ results # <<>>

\* C6: in every record returned by enforce_contract, a hygiene, safety or
\* service aspect with a mention that contains a complaint-indicator word,
\* or with rating <= 2, has a score <= 0.
C6_ComplaintAspectScoreNonPositive ==
    \A k \in DOMAIN results :
        \A a \in Covered(results[k]) :
            ComplaintCase(results[k], a) =>
                results[k].aspect_sentiments[a].score <= 0

\* The returned record differs from the one passed in, in the label, the
\* confidence or an aspect's sentiment or score.
Changed(before, after) ==
    \/ after.overall_sentiment # before.overall_sentiment
    \/ after.confidence # before.confidence
    \/ \E a \in DOMAIN before.aspect_sentiments :
           \/ after.aspect_sentiments[a].sentiment #
                  before.aspect_sentiments[a].sentiment
           \/ after.aspect_sentiments[a].score #
                  before.aspect_sentiments[a].score

\* C7: whenever the record enforce_contract returns differs from its input
\* in overall_sentiment, confidence or any aspect's sentiment or score, the
\* returned record has rating_override true.
C7_AnyChangeSetsOverride ==
    (Appended /\ Changed(input, record)) => record.rating_override

\* C10: no assertion fails in a run of the pipeline: neither of the two
\* assertions of enforce_contract, on any record main builds and fuses, nor
\* main's assertion that the review_ids of the results are unique, which
\* holds because the rows left by _deduplicate_reviews have distinct ids.
C10_NoAssertionFails ==
    /\ fault = "none" /\ pc # "failed"
    /\ pc \in {"analyze", "fuse", "enforce", "assert_unique", "saved"} =>
           \A i, j \in DOMAIN reviews :
               reviews[i].review_id = reviews[j].review_id => i = j

\* A run that dropped a duplicate row and passed the uniqueness assertion,
\* with an urgent record the opinion had called Positive among the results.
C10_Witness ==
    /\ pc = "saved"
    /\ dupe_count > 0
    /\ \E k \in DOMAIN results :
           /\ results[k].urgent
           /\ results[k].llm_sentiment = "Positive"
           /\ results[k].overall_sentiment = "Negative"

(***************************************************************************)
(* Properties of the deterministic signals and of fusion, checked under    *)
(* ReviewSpec.  After AnalyzeReview (pc = "fuse") record is the record     *)
(* main built from classify_sentiment, detect_aspects and detect_urgency;  *)
(* after Fuse (pc = "enforce") det is that record, llm_result the opinion  *)
(* and record the fused record.                                            *)
(***************************************************************************)
Classified == pc = "fuse"

\* C11: the label classify_sentiment returns is Negative for rating <= 2,
\* is never Positive for rating 3 (Neutral when the label before the
\* ceiling was Positive) and is the label before the ceiling for
\* rating >= 4; a Negative label of a 4-5 star review that reaches
\* enforce_contract is returned Negative.
C11_ClassifierCeiling ==
    /\ Classified =>
           /\ record.rating <= 2 => record.overall_sentiment = "Negative"
           /\ record.rating = 3 =>
                  /\ record.overall_sentiment # "Positive"
                  /\ TextSentiment(record.final_score, 3) = "Positive" =>
                         record.overall_sentiment = "Neutral"
           /\ record.rating >= 4 =>
                  record.overall_sentiment =
                      TextSentiment(record.final_score, record.rating)
    /\ (/\ Appended
        /\ det.rating >= 4
        /\ det.overall_sentiment = "Negative"
        /\ input.overall_sentiment = "Negative") =>
           record.overall_sentiment = "Negative"

\* A five-star review whose text scored negative, without an opinion,
\* appended as Negative.
C11_Witness ==
    /\ Appended
    /\ llm_result = NoOpinion
    /\ det.rating = 5
    /\ det.final_score < 0
    /\ det.overall_sentiment = "Negative"
    /\ record.overall_sentiment = "Negative"

\* The direction of a star rating: 1-2 Negative, 3 Neutral, 4-5 Positive.
RatingDirection(rating) ==
    IF rating <= 2 THEN "Negative" ELSE IF rating = 3 THEN "Neutral" ELSE "Positive"

\* The record's rating direction equals its label.
RatingAgrees(rec) == RatingDirection(rec.rating) = rec.overall_sentiment

\* |vader_compound| > 0.5
StronglyPolarised(rec) == rec.vader_compound > 5000 \/ rec.vader_compound < -5000

\* The cleaned text is longer than 50 characters.
Substantial(rec) == Len(clean_text(rec.review_text)) > 50

Contradicts(rec) ==
    \/ rec.rating <= 2 /\ rec.vader_compound > 5000
    \/ rec.rating >= 4 /\ rec.vader_compound < -5000

\* C13: for a non-blank text whose lexicon score contradicts the star
\* rating, classify_sentiment returns confidence LOW.
C13_ContradictionIsLow ==
    (Classified /\ ~IsBlank(record.review_text) /\ Contradicts(record)) =>
        record.confidence = "LOW"

(***************************************************************************)
(* Properties of the detectors on blank text, checked under CallSpec.      *)
(***************************************************************************)
\* The text is None, empty or made of spaces only.
NoText(text) == text = None \/ \A j \in 1..Len(text) : SubSeq(text, j, j) = " "

\* C14: for a None, empty or whitespace-only text and any integer rating,
\* classify_sentiment returns the rating-derived label (>= 4 Positive,
\* <= 2 Negative, otherwise Neutral) with confidence LOW, rating_override
\* true and both scores 0; detect_urgency returns not urgent, reason
\* "none", severity 0; detect_aspects returns no aspects; none raises.
C14_BlankText ==
    /\ fault = "none"
    /\ NoText(input.review_text) =>
           /\ pc = "classify_sentiment" =>
                  record =
                      [overall_sentiment |->
                           IF input.rating >= 4 THEN "Positive"
                           ELSE IF input.rating <= 2 THEN "Negative"
                           ELSE "Neutral",
                       vader_compound |-> 0,
                       final_score |-> 0,
                       rating_override |-> TRUE,
                       confidence |-> "LOW"]
           /\ pc = "detect_urgency" =>
                  /\ ~record.urgent
                  /\ record.urgency_reason = "none"
                  /\ record.severity_score = 0
                  /\ record.matched_patterns = {}
           /\ pc = "detect_aspects" =>
                  /\ record.aspects_detected = {}
                  /\ DOMAIN record.aspect_sentiments = {}

\* classify_sentiment returned for a text of three spaces and rating 5.
C14_Witness ==
    /\ pc = "classify_sentiment"
    /\ input.review_text = "   "
    /\ input.rating = 5
    /\ record.overall_sentiment = "Positive"
    /\ record.confidence = "LOW"

(***************************************************************************)
(* Properties of detect_urgency, checked under ReviewSpec.                 *)
(***************************************************************************)
\* The entries of URGENCY_PATTERNS with a keyword that occurs in the text,
\* ignoring case.
MatchedEntries(text) ==
    {i \in DOMAIN URGENCY_PATTERNS :
        \E k \in DOMAIN URGENCY_PATTERNS[i].keywords :
            Contains(Lower(text), URGENCY_PATTERNS[i].keywords[k])}

\* The matched entry of the highest severity.
TopEntry(text) ==
    URGENCY_PATTERNS[CHOOSE i \in MatchedEntries(text) :
                         \A j \in MatchedEntries(text) :
                             URGENCY_PATTERNS[j].severity <=
                                 URGENCY_PATTERNS[i].severity]

HasMatch(rec) == ~IsBlank(rec.review_text) /\ MatchedEntries(rec.review_text) # {}

\* C15: when the highest-severity matched category is food_poisoning,
\* hygiene_severe, authority_escalation or safety_concern, severity_score
\* is that category's base severity for every rating (food_poisoning: 10
\* and urgent); otherwise (only rude_staff matched) rating 1 adds 1 up to
\* 10, rating >= 4 subtracts 3 down to 0 and the review is not urgent, and
\* ratings 2-3 leave the base severity.
C15_RatingModifier ==
    (Classified /\ HasMatch(record)) =>
        IF TopEntry(record.review_text).category \in
               {"food_poisoning", "hygiene_severe", "authority_escalation",
                "safety_concern"}
        THEN /\ record.severity_score = TopEntry(record.review_text).severity
             /\ TopEntry(record.review_text).category = "food_poisoning" =>
                    record.severity_score = 10 /\ record.urgent
        ELSE /\ TopEntry(record.review_text).category = "rude_staff"
             /\ record.rating = 1 =>
                    record.severity_score =
                        Min(10, TopEntry(record.review_text).severity + 1)
             /\ record.rating >= 4 =>
                    /\ record.severity_score =
                           Max(0, TopEntry(record.review_text).severity - 3)
                    /\ ~record.urgent
             /\ record.rating \in {2, 3} =>
                    record.severity_score = TopEntry(record.review_text).severity

\* A five-star review that mentions food poisoning: severity 10, urgent.
C15_Witness ==
    /\ Classified
    /\ record.rating = 5
    /\ HasMatch(record)
    /\ TopEntry(record.review_text).category = "food_poisoning"
    /\ record.severity_score = 10
    /\ record.urgent

\* C16: in every result of detect_urgency severity_score is in 0..10,
\* urgent is true exactly when severity_score >= 6, urgency_reason is
\* "none" exactly when urgent is false, and otherwise it is the
\* highest-severity matched category.
C16_UrgencyResult ==
    Classified =>
        /\ record.severity_score \in 0..10
        /\ record.urgent = (record.severity_score >= 6)
        /\ (record.urgency_reason = "none") = ~record.urgent
        /\ record.urgent =>
               /\ HasMatch(record)
               /\ record.urgency_reason = TopEntry(record.review_text).category

\* A review that matched a keyword and is not urgent: the reason is "none".
C16_Witness ==
    /\ Classified
    /\ record.matched_patterns # {}
    /\ ~record.urgent
    /\ record.severity_score = 3
    /\ record.urgency_reason = "none"

(***************************************************************************)
(* Properties of analyze_review, checked under GeminiSpec.                 *)
(***************************************************************************)
\* The reply is JSON that fails the schema: not an object, or an object
\* whose overall_sentiment is not one of the three allowed strings.
FailsSchema(reply) ==
    /\ reply.kind = "json"
    /\ \/ reply.data.t # "dict"
       \/ "overall_sentiment" \notin DOMAIN reply.data.fields
       \/ reply.data.fields["overall_sentiment"] \notin
              {JStr("Positive"), JStr("Neutral"), JStr("Negative")}

\* The opinion holds allow-listed values only, and no reason unless urgent.
AllowListed(opinion) ==
    /\ opinion.overall_sentiment \in {"Positive", "Neutral", "Negative"}
    /\ \A k \in DOMAIN opinion.aspects :
           /\ opinion.aspects[k].aspect \in
                  {"food", "service", "hygiene", "price", "ambience", "safety"}
           /\ opinion.aspects[k].sentiment \in {"positive", "neutral", "negative"}
    /\ ~opinion.urgent => opinion.urgency_reason = None

\* What the claim says of the value analyze_review returns.
ReturnsAsStated ==
    pc = "analyze_review" =>
        /\ (\/ ~input.globals.credentials
            \/ input.reply.kind \in {"call_failed", "not_json"}
            \/ FailsSchema(input.reply)) => llm_result = NoOpinion
        /\ llm_result # NoOpinion => AllowListed(llm_result)

\* C20: analyze_review never raises; without credentials or package, on a
\* failed call, on a reply that is not JSON and on a reply that fails
\* schema validation it returns None; otherwise it returns an opinion whose
\* overall_sentiment, aspect names and aspect sentiments are allow-listed
\* and whose urgency_reason is None whenever urgent is false.
C20_NeverRaises ==
    /\ fault # "TypeError" /\ pc # "failed"
    /\ ReturnsAsStated

(***************************************************************************)
(* Properties of _fuse_results, checked under ReviewSpec.                  *)
(***************************************************************************)
\* _fuse_results has returned for an opinion that is not None.
Fused == pc = "enforce" /\ llm_result # NoOpinion

\* The disagreement touches a safety-or-urgent context.
SafetyContext ==
    \/ det.urgent
    \/ llm_result.urgent
    \/ \E k \in DOMAIN llm_result.aspects :
           llm_result.aspects[k].aspect \in {"hygiene", "safety"}

\* C17: when the opinion's sentiment equals the deterministic one, the
\* sentiment and the confidence are unchanged; when they differ, the
\* opinion's sentiment is adopted and the confidence is never HIGH: the
\* deterministic confidence capped at MEDIUM in a safety-or-urgent context,
\* LOW otherwise.
C17_SentimentFusion ==
    Fused =>
        IF llm_result.overall_sentiment = det.overall_sentiment
        THEN /\ record.overall_sentiment = det.overall_sentiment
             /\ record.confidence = det.confidence
        ELSE /\ record.overall_sentiment = llm_result.overall_sentiment
             /\ record.confidence # "HIGH"
             /\ record.confidence =
                    IF SafetyContext
                    THEN (IF det.confidence = "LOW" THEN "LOW" ELSE "MEDIUM")
                    ELSE "LOW"

\* An urgent record of HIGH confidence that the opinion calls Positive:
\* fused as Positive with confidence MEDIUM.
C17_Witness ==
    /\ Fused
    /\ det.urgent
    /\ det.confidence = "HIGH"
    /\ det.overall_sentiment = "Negative"
    /\ llm_result.overall_sentiment = "Positive"
    /\ record.overall_sentiment = "Positive"
    /\ record.confidence = "MEDIUM"

\* The entries of the opinion for aspect a, and the last of them.
EntriesFor(a) == {k \in DOMAIN llm_result.aspects : llm_result.aspects[k].aspect = a}

LastEntryFor(a) ==
    llm_result.aspects[CHOOSE k \in EntriesFor(a) : \A j \in EntriesFor(a) : j <= k]

FirstEntryFor(a) ==
    llm_result.aspects[CHOOSE k \in EntriesFor(a) : \A j \in EntriesFor(a) : k <= j]

OpinionAspects == {llm_result.aspects[k].aspect : k \in DOMAIN llm_result.aspects}

Elements(q) == {q[k] : k \in DOMAIN q}

\* The non-empty evidence the opinion gives for aspect a that is not among
\* the deterministic mentions of a.
NewEvidence(a) ==
    {llm_result.aspects[k].evidence : k \in EntriesFor(a)} \
        ({""} \cup Elements(det.aspect_sentiments[a].mentions))

\* C18: after fusing an opinion the aspects of the record are the union of
\* the deterministic aspects and the opinion's, and aspects_detected lists
\* exactly the keys of aspect_sentiments; an aspect of both takes the
\* opinion's sentiment, keeps its score and its mentions, and gains each
\* non-empty evidence not already among them, once; an aspect of the
\* opinion only is added with score 0; an aspect of the record only is
\* unchanged.
C18_AspectFusion ==
    Fused =>
        /\ DOMAIN record.aspect_sentiments =
               DOMAIN det.aspect_sentiments \cup OpinionAspects
        /\ record.aspects_detected = DOMAIN record.aspect_sentiments
        /\ \A a \in DOMAIN det.aspect_sentiments \ OpinionAspects :
               record.aspect_sentiments[a] = det.aspect_sentiments[a]
        /\ \A a \in DOMAIN det.aspect_sentiments \cap OpinionAspects :
               /\ record.aspect_sentiments[a].sentiment = LastEntryFor(a).sentiment
               /\ record.aspect_sentiments[a].score = det.aspect_sentiments[a].score
               /\ SubSeq(record.aspect_sentiments[a].mentions, 1,
                         Len(det.aspect_sentiments[a].mentions)) =
                      det.aspect_sentiments[a].mentions
               /\ Elements(record.aspect_sentiments[a].mentions) =
                      Elements(det.aspect_sentiments[a].mentions) \cup NewEvidence(a)
               /\ Len(record.aspect_sentiments[a].mentions) =
                      Len(det.aspect_sentiments[a].mentions) +
                          Cardinality(NewEvidence(a))
        /\ \A a \in OpinionAspects \ DOMAIN det.aspect_sentiments :
               /\ record.aspect_sentiments[a].sentiment = LastEntryFor(a).sentiment
               /\ record.aspect_sentiments[a].score = 0
               /\ record.aspect_sentiments[a].mentions[1] = FirstEntryFor(a).evidence

\* An opinion whose evidence for the service aspect is already the mention
\* of the record, and which adds the safety aspect.
C18_Witness ==
    /\ Fused
    /\ "service" \in DOMAIN det.aspect_sentiments
    /\ "safety" \notin DOMAIN det.aspect_sentiments
    /\ "service" \in OpinionAspects
    /\ LastEntryFor("service").evidence \in
           Elements(det.aspect_sentiments["service"].mentions)
    /\ record.aspect_sentiments["service"].mentions =
           det.aspect_sentiments["service"].mentions
    /\ det.aspect_sentiments["service"].sentiment = "positive"
    /\ record.aspect_sentiments["service"].sentiment = "negative"
    /\ record.aspect_sentiments["safety"].score = 0

\* C19: after fusion urgent is true exactly when the deterministic record
\* was urgent or the opinion is urgent; a deterministic urgent flag and its
\* reason are kept; the opinion's reason is adopted exactly when the
\* opinion is urgent with a reason and the deterministic record was not
\* urgent.
C19_UrgencyFusion ==
    Fused =>
        /\ record.urgent = (det.urgent \/ llm_result.urgent)
        /\ det.urgent => record.urgency_reason = det.urgency_reason
        /\ record.urgency_reason =
               IF llm_result.urgent /\ llm_result.urgency_reason # None /\ ~det.urgent
               THEN llm_result.urgency_reason
               ELSE det.urgency_reason

\* An urgent record fused with an urgent opinion that names another reason:
\* the deterministic reason stays.
C19_Witness ==
    /\ Fused
    /\ det.urgent
    /\ llm_result.urgent
    /\ llm_result.urgency_reason # None
    /\ llm_result.urgency_reason # det.urgency_reason
    /\ record.urgency_reason = det.urgency_reason

(***************************************************************************)
(* utils.load_reviews and run_analysis.main from the file on: the rows     *)
(* are read as csv.DictReader yields them (every field a string, None for  *)
(* a field the line is too short for), converted, deduplicated and         *)
(* processed.                                                              *)
(***************************************************************************)
DigitValue(c) == CHOOSE d \in 0..9 : SubSeq("0123456789", d + 1, d + 1) = c

RECURSIVE IntOfDigits(_)
IntOfDigits(s) ==
    IF s = "" THEN 0
    ELSE IntOfDigits(SubSeq(s, 1, Len(s) - 1)) * 10
         + DigitValue(SubSeq(s, Len(s), Len(s)))

\* int(text) of a str: surrounding whitespace is dropped, one sign is
\* allowed, the rest must be decimal digits; anything else raises ValueError.
int(text) ==
    LET t == Strip(text)
        signed == t # "" /\ SubSeq(t, 1, 1) \in {"+", "-"}
        body == IF signed THEN SubSeq(t, 2, Len(t)) ELSE t
        ok == body # "" /\ \A i \in 1..Len(body) : IsDigit(SubSeq(body, i, i))
    IN  [raised |-> ~ok,
         value |-> IF ~ok THEN 0
                   ELSE IF signed /\ SubSeq(t, 1, 1) = "-"
                   THEN 0 - IntOfDigits(body) ELSE IntOfDigits(body)]

\* The body of the loop of load_reviews for one row.
LoadRow(row) ==
    [row EXCEPT !.rating = int(row.rating).value,
                !.review_text = IF row.review_text = None THEN ""
                                ELSE row.review_text]

\* load_reviews: the first row whose rating int() rejects raises, and the
\* exception leaves the function; there is no handler in it.
load_reviews(rows) ==
    IF \E k \in DOMAIN rows : int(rows[k].rating).raised
    THEN [raised |-> TRUE, reviews |-> <<>>]
    ELSE [raised |-> FALSE, reviews |-> [k \in DOMAIN rows |-> LoadRow(rows[k])]]

CsvRow(id, text, rating) ==
    [review_id |-> id, reviewer_name |-> "Asha", review_text |-> text,
     rating |-> rating, review_date |-> "2024-01-05"]

CsvPool ==
    {CsvRow("r1", "Staff was friendly.", "5"),
     CsvRow("r2", None, " 2 "),
     CsvRow("r2", "", "abc"),
     CsvRow("r3", "Saw a cockroach", "")}

CsvLists == UNION {[1..n -> CsvPool] : n \in 0..MaxReviews}

BatchInit ==
    /\ pc = "load"
    /\ csv_rows \in CsvLists
    /\ reviews = <<>>
    /\ dupe_count = 0
    /\ idx = 0
    /\ record = NoRecord
    /\ det = NoRecord
    /\ llm_result = NoOpinion
    /\ input = NoRecord
    /\ once = NoRecord
    /\ results = <<>>
    /\ fault = "none"
    /\ seen_ids = {}
    /\ new_reviews = <<>>
    /\ drafted = 0
    /\ calls = <<>>

\* reviews = load_reviews(args.input) in main: main has no handler either,
\* so an exception of load_reviews ends the run.
LoadReviews ==
    /\ pc = "load"
    /\ LET loaded == load_reviews(csv_rows)
       IN  IF loaded.raised
           THEN /\ pc' = "failed"
                /\ fault' = "ValueError"
                /\ reviews' = reviews
           ELSE /\ pc' = "deduplicate"
                /\ fault' = fault
                /\ reviews' = loaded.reviews
    /\ UNCHANGED <<record, input, once, dupe_count, idx, det, llm_result, results>>
    /\ UNCHANGED cycle_vars

BatchNext ==
    LoadReviews \/ Deduplicate \/ Analyze \/ Fuse \/ EnforceAndAppend \/ AssertUnique

BatchSpec == BatchInit /\ [][BatchNext]_vars

\* A row of the file the pipeline can process: its rating is a number.
WellFormed(row) == ~int(row.rating).raised

RunOver == pc \in {"saved", "failed"}

\* C21: a failure of one review does not abort the batch: when the run is
\* over, every well-formed row of the file has a record in the results,
\* whatever the other rows of the file are.
C21_FailureIsSkipped ==
    RunOver =>
        \A k \in DOMAIN csv_rows :
            WellFormed(csv_rows[k]) =>
                \E j \in DOMAIN results :
                    results[j].review_id = csv_rows[k].review_id

(***************************************************************************)
(* agent/scheduler.py: one run_cycle.  The database and the response       *)
(* agent are outside the program; what run_cycle does to them is the list  *)
(* of its calls.  get_seen_ids returns the ids the reviews table holds     *)
(* when the cycle starts.  A draft is a text run_cycle only passes on, so  *)
(* a call records whether it carries an AI draft or the placeholder.       *)
(***************************************************************************)
MaxRows == 7

MAX_DRAFTS_PER_RUN == 5

NEGATIVE_RATING_MAX == 3

Call(fn, review_id, draft) == [fn |-> fn, review_id |-> review_id, draft |-> draft]

\* Variant: the budget of drafts is never looked at.
ResponseCalls_no_budget(review, drafts_so_far) ==
    IF review.rating <= NEGATIVE_RATING_MAX
    THEN <<Call("draft_response", review.review_id, None),
           Call("insert_response", review.review_id, "ai_draft")>>
    ELSE <<>>

\* Step 4 of the loop body: the calls made for a review after insert_review.
ResponseCalls(review, drafts_so_far) ==
    IF review.rating <= NEGATIVE_RATING_MAX
    THEN IF drafts_so_far < MAX_DRAFTS_PER_RUN
         THEN <<Call("draft_response", review.review_id, None),
                Call("insert_response", review.review_id, "ai_draft")>>
         ELSE <<Call("insert_response", review.review_id, "skipped_rate_limit")>>
    ELSE <<>>

DraftsMade(review, drafts_so_far) ==
    IF review.rating <= NEGATIVE_RATING_MAX /\ drafts_so_far < MAX_DRAFTS_PER_RUN
    THEN 1 ELSE 0

RowIds == <<"r1", "r2", "r3", "r4", "r5", "r6", "r7", "r8", "r9", "r10">>

\* The files of a cycle: row k has its own id, row 2 may repeat the id of
\* row 1; ratings lie on both sides of NEGATIVE_RATING_MAX; the first row
\* may carry a text or a rating that is not a number.
CycleRows(k) ==
    {CsvRow(id, text, rating) :
        id \in {RowIds[k]} \cup (IF k = 2 THEN {"r1"} ELSE {}),
        text \in {""} \cup (IF k = 1 THEN {"The waiter was rude"} ELSE {}),
        rating \in {"3", "4"} \cup (IF k = 1 THEN {"abc"} ELSE {})}

RECURSIVE FilesOfLength(_)
FilesOfLength(n) ==
    IF n = 0 THEN {<<>>}
    ELSE {Append(f, row) : f \in FilesOfLength(n - 1), row \in CycleRows(n)}

CycleFiles == UNION {FilesOfLength(n) : n \in 0..MaxRows}

CycleInit ==
    /\ pc = "run_cycle"
    /\ csv_rows \in CycleFiles
    /\ seen_ids \in {{}, {"r1"}, {"r3"}}
    /\ reviews = <<>>
    /\ new_reviews = <<>>
    /\ drafted = 0
    /\ calls = <<>>
    /\ dupe_count = 0
    /\ idx = 0
    /\ record = NoRecord
    /\ det = NoRecord
    /\ llm_result = NoOpinion
    /\ input = NoRecord
    /\ once = NoRecord
    /\ results = <<>>
    /\ fault = "none"

NotSeen(rows, ids) == SelectSeq(rows, LAMBDA r : r.review_id \notin ids)

\* Steps 1 and 2: load the file, keep the reviews whose id is not in seen.
\* The file may be gone when the cycle opens it: FileNotFoundError is the
\* one exception that is handled, a ValueError ends the cycle.
CycleLoad ==
    /\ pc = "run_cycle"
    /\ \E found \in BOOLEAN :
           IF ~found
           THEN /\ pc' = "cycle_done"
                /\ UNCHANGED <<fault, reviews, new_reviews, idx>>
           ELSE LET loaded == load_reviews(csv_rows)
                IN  IF loaded.raised
                    THEN /\ pc' = "failed"
                         /\ fault' = "ValueError"
                         /\ UNCHANGED <<reviews, new_reviews, idx>>
                    ELSE /\ reviews' = loaded.reviews
                         /\ new_reviews' = NotSeen(loaded.reviews, seen_ids)
                         /\ idx' = 1
                         /\ fault' = fault
                         /\ pc' = IF new_reviews' = <<>> THEN "cycle_done"
                                  ELSE "process"
    /\ drafted' = 0
    /\ UNCHANGED <<record, input, once, dupe_count, det, llm_result, results,
                   csv_rows, seen_ids, calls>>

\* Step 3 for one review: the three detectors, the record, enforce_contract,
\* insert_review, then step 4.
ProcessRow(review, prepared, collected, urgency_result) ==
    \E vader \in VaderPool :
        \E svader \in [1..CountSentences(review.review_text, collected) ->
                           VaderPool] :
            LET out == enforce_contract(
                           BuildRecord(
                               review,
                               ClassifyPrepared(review.review_text, prepared,
                                                review.rating, vader),
                               DetectCollected(review.review_text, collected,
                                               svader),
                               urgency_result))
            IN  /\ record' = out.rec
                /\ fault' = out.fault
                /\ IF out.fault # "none"
                   THEN /\ pc' = "failed"
                        /\ UNCHANGED <<calls, drafted, idx>>
                   ELSE /\ calls' = calls
                                    \o <<Call("insert_review", review.review_id, None)>>
                                    \o ResponseCalls(review, drafted)
                        /\ drafted' = drafted + DraftsMade(review, drafted)
                        /\ idx' = idx + 1
                        /\ pc' = IF idx < Len(new_reviews) THEN "process"
                                 ELSE "cycle_done"

ProcessReview ==
    /\ pc = "process"
    /\ ProcessRow(new_reviews[idx],
                  PrepareText(new_reviews[idx].review_text),
                  CollectAspectSentences(new_reviews[idx].review_text),
                  detect_urgency(new_reviews[idx].review_text,
                                 new_reviews[idx].rating))
    /\ UNCHANGED <<input, once, reviews, dupe_count, det, llm_result, results,
                   csv_rows, seen_ids, new_reviews>>

CycleNext == CycleLoad \/ ProcessReview

CycleSpec == CycleInit /\ [][CycleNext]_vars

CallsOf(fn, id) ==
    {k \in DOMAIN calls : calls[k].fn = fn /\ calls[k].review_id = id}

\* C22: callers deduplicate by review_id before invoking the pipeline: in
\* one run_cycle no review_id goes through classify, detect and enforce
\* (each pass ends in one insert_review call) more than once.
C22_OncePerRun ==
    \A k \in DOMAIN RowIds :
        Cardinality(CallsOf("insert_review", RowIds[k])) <= 1

\* The reviews of new_reviews the loop has finished.
Processed == 1..(idx - 1)

InCycle == pc \in {"process", "cycle_done"}

Eligible(j) == new_reviews[j].rating <= NEGATIVE_RATING_MAX

AllCalls(fn) == {k \in DOMAIN calls : calls[k].fn = fn}

\* The position of the insert_review call that opens the loop body a call
\* belongs to.
BodyStart(k) ==
    IF calls[k].fn = "insert_response" /\ calls[k].draft = "ai_draft"
    THEN k - 2 ELSE k - 1

\* C28: in one run_cycle draft_response is called at most MAX_DRAFTS_PER_RUN
\* times and only for new reviews with rating <= NEGATIVE_RATING_MAX; every
\* such review gets exactly one insert_response call, an AI draft while the
\* budget lasts and the placeholder afterwards, issued after its
\* insert_review; reviews with a higher rating and reviews that were in the
\* database get none.
C28_DraftBudget ==
    InCycle =>
        /\ Cardinality(AllCalls("draft_response")) <= MAX_DRAFTS_PER_RUN
        /\ Cardinality(AllCalls("draft_response")) = drafted
        /\ \A k \in AllCalls("draft_response") :
               /\ \E j \in Processed :
                      /\ new_reviews[j].review_id = calls[k].review_id
                      /\ Eligible(j)
               /\ k < Len(calls)
               /\ calls[k + 1] = Call("insert_response", calls[k].review_id,
                                      "ai_draft")
        /\ \A n \in DOMAIN RowIds :
               Cardinality(CallsOf("insert_response", RowIds[n]))
                   = Cardinality({j \in Processed :
                                      /\ new_reviews[j].review_id = RowIds[n]
                                      /\ Eligible(j)})
        /\ \A k \in AllCalls("insert_response") :
               /\ BodyStart(k) >= 1
               /\ calls[BodyStart(k)] = Call("insert_review", calls[k].review_id,
                                             None)
               /\ calls[k].review_id \notin seen_ids
               /\ calls[k].draft = "ai_draft"
                      <=> Cardinality({m \in AllCalls("insert_response") : m < k})
                              < MAX_DRAFTS_PER_RUN
               /\ calls[k].draft = "ai_draft" => calls[k - 1].fn = "draft_response"
        /\ \A j \in Processed :
               new_reviews[j].review_id \notin seen_ids

\* A finished cycle that ran out of budget after five drafts and passed
\* over a review of rating 4.
C28_Witness ==
    /\ pc = "cycle_done"
    /\ \E k \in DOMAIN calls : calls[k].draft = "skipped_rate_limit"
    /\ drafted = MAX_DRAFTS_PER_RUN
    /\ \E j \in DOMAIN new_reviews : ~Eligible(j)

\* C23: every emitted record carries at most 3 evidence snippets per aspect:
\* each aspect_sentiments entry of a record appended to the results has a
\* mentions list of length <= 3.
C23_AtMostThreeMentions ==
    \A k \in DOMAIN results :
        \A a \in DOMAIN results[k].aspect_sentiments :
            Len(results[k].aspect_sentiments[a].mentions) <= 3

(***************************************************************************)
(* tap_google_reviews/scraper.py: generate_review_id.  SHA-256 is taken    *)
(* to be free of collisions, so a digest is modelled by the string that    *)
(* was hashed: two digests are equal exactly when the strings are.         *)
(***************************************************************************)
sha256_hexdigest(raw) == [sha256_of |-> raw]

\* Variant: the whole text goes into the id.
generate_review_id_whole_text(reviewer_name, review_date, review_text) ==
    sha256_hexdigest(reviewer_name \o "|" \o review_date \o "|"
                     \o (IF review_text = None THEN "" ELSE review_text))

generate_review_id(reviewer_name, review_date, review_text) ==
    LET text_part == Take(IF review_text = None THEN "" ELSE review_text, 50)
    IN  sha256_hexdigest(reviewer_name \o "|" \o review_date \o "|" \o text_part)

\* Fifty characters, then two different endings.
FiftyChars == "The paneer tikka here is the best I have had in a "

IdNames == {"John", "Jane", "John|2026"}

IdDates == {"2026-01-15T10:00:00+05:30", "01-15", "2026|01-15"}

IdTexts ==
    {None, "", "Great food!",
     FiftyChars \o "long time", FiftyChars \o "while, but never again"}

IdTriples ==
    [reviewer_name : IdNames, review_date : IdDates, review_text : IdTexts]

IdInit ==
    /\ pc = "scraped"
    /\ input \in [a : IdTriples, b : IdTriples]
    /\ record = NoRecord
    /\ once = NoRecord
    /\ fault = "none"
    /\ reviews = <<>>
    /\ dupe_count = 0
    /\ idx = 0
    /\ det = NoRecord
    /\ llm_result = NoOpinion
    /\ results = <<>>
    /\ NotLoaded

\* The ids of two scraped reviews, the first one generated twice.
GenerateIds ==
    /\ pc = "scraped"
    /\ record' = [a |-> generate_review_id(input.a.reviewer_name,
                                           input.a.review_date,
                                           input.a.review_text),
                  b |-> generate_review_id(input.b.reviewer_name,
                                           input.b.review_date,
                                           input.b.review_text),
                  a_again |-> generate_review_id(input.a.reviewer_name,
                                                 input.a.review_date,
                                                 input.a.review_text)]
    /\ pc' = "generated"
    /\ UNCHANGED <<input, once, fault>>
    /\ UNCHANGED main_vars
    /\ UNCHANGED cycle_vars

IdSpec == IdInit /\ [][GenerateIds]_vars

Generated == pc = "generated"

\* What generate_review_id reads of a text: None as "", then 50 characters.
TextPart(review_text) ==
    IF review_text = None THEN ""
    ELSE SubSeq(review_text, 1, IF Len(review_text) < 50 THEN Len(review_text) ELSE 50)

NoBar(t) == ~Contains(t.reviewer_name, "|") /\ ~Contains(t.review_date, "|")

GuardScores == {-10000, -6000, -1000, -1, 0, 1, 1000, 5000, 5001, 6000, 10000}

GuardTexts ==
    {"Staff was friendly.",
     "The waiter was rude",
     "Not good and the staff was rude to us",
     "Nothing to say",
     LongComplaint,
     LongComplaint \o " and we will never come back"}

GuardInit ==
    /\ pc = "scored"
    /\ input \in [score : GuardScores, text : GuardTexts, rating : Ratings]
    /\ record = NoRecord
    /\ once = NoRecord
    /\ fault = "none"
    /\ reviews = <<>>
    /\ dupe_count = 0
    /\ idx = 0
    /\ det = NoRecord
    /\ llm_result = NoOpinion
    /\ results = <<>>
    /\ NotLoaded

ApplyGuardrails ==
    /\ pc = "scored"
    /\ record' = [final_score |->
                      _apply_vader_guardrails(input.score, input.text, input.rating)]
    /\ pc' = "guarded"
    /\ UNCHANGED <<input, once, fault>>
    /\ UNCHANGED main_vars
    /\ UNCHANGED cycle_vars

GuardSpec == GuardInit /\ [][ApplyGuardrails]_vars

Guarded == pc = "guarded"

\* C25: the guardrails only tighten: for every score, text and rating
\* _apply_vader_guardrails returns a value <= the score it was given, and a
\* strictly negative score is returned unchanged.
C25_GuardrailsOnlyTighten ==
    Guarded =>
        /\ record.final_score <= input.score
        /\ input.score < 0 => record.final_score = input.score

\* The long-complaint clamp has lowered the score 0.6 of a 5-star review
\* to -0.1.
C25_Witness ==
    /\ Guarded
    /\ input.text = LongComplaint
    /\ input.score = 6000
    /\ input.rating = 5
    /\ record.final_score = -1000

\* The cleaned text is longer than 250 characters and holds a negative
\* keyword.
IsLongComplaint(review_text) ==
    /\ ~IsBlank(review_text)
    /\ Len(clean_text(review_text)) > _LONG_REVIEW_THRESHOLD
    /\ _NEGATIVE_KEYWORDS \cap Words(clean_text(review_text)) # {}

\* C26: the long-complaint guardrail prevents a positive verdict: for every
\* rating 1-5, a review whose cleaned text is longer than 250 characters,
\* holds a negative keyword and has a positive lexicon score is not
\* classified Positive by classify_sentiment.
C26_LongComplaintNotPositive ==
    (/\ Classified
     /\ record.vader_compound > 0
     /\ IsLongComplaint(record.review_text))
        => record.overall_sentiment # "Positive"

\* Some sentence detect_aspects matched for the aspect holds a
\* negative-indicator word.
MatchedHasIndicator(collected, aspect) ==
    \E k \in DOMAIN collected.aspect_sentences[aspect] :
        _sentence_has_negative_indicators(
            collected.sentences[collected.aspect_sentences[aspect][k]])

\* C27: in the result of detect_aspects a hygiene, safety or service aspect
\* with at least one matched sentence that holds a negative-indicator word
\* is never labelled positive, whatever the scores of its other sentences.
C27_ComplaintAspectNotPositive ==
    (Classified /\ ~IsBlank(record.review_text)) =>
        \A a \in _COMPLAINT_SENSITIVE_ASPECTS \cap DOMAIN record.aspect_sentiments :
            MatchedHasIndicator(CollectAspectSentences(record.review_text), a)
                => record.aspect_sentiments[a].sentiment # "positive"

\* C29: for a non-empty text classify_sentiment returns Neutral only when
\* rating == 3: the override zone strictly contains the neutral band between
\* the negative and the positive cutoff, so the thresholds never yield
\* Neutral, and for every other rating the result is Positive or Negative.
C29_NeutralOnlyForThree ==
    /\ -RATING_OVERRIDE_ZONE < NEGATIVE_THRESHOLD
    /\ POSITIVE_THRESHOLD < RATING_OVERRIDE_ZONE
    /\ (Classified /\ ~IsBlank(record.review_text)) =>
           /\ record.overall_sentiment = "Neutral" => record.rating = 3
           /\ record.rating # 3 =>
                  record.overall_sentiment \in {"Positive", "Negative"}
           /\ ~record.rating_override =>
                  record.overall_sentiment \in {"Positive", "Negative"}

\* A 3-star review whose score 0.05 lies on the edge of the neutral band,
\* inside the zone: Neutral, by the rating.
C29_Witness ==
    /\ Classified
    /\ record.review_text = "Staff was friendly."
    /\ record.final_score = POSITIVE_THRESHOLD
    /\ record.rating = 3
    /\ record.rating_override
    /\ record.overall_sentiment = "Neutral"

\* The record passed to enforce_contract in the last iteration, once the
\* enforced record has been appended.
Enforced == pc \in {"assert_unique", "saved"} /\ results # <<>>

ConfidenceRank(confidence) ==
    IF confidence = "HIGH" THEN 3 ELSE IF confidence = "MEDIUM" THEN 2 ELSE 1

\* The fields of a record enforce_contract may write.
EnforcedFields ==
    {"overall_sentiment", "rating_override", "confidence", "aspect_sentiments"}

\* C30: enforce_contract changes nothing but overall_sentiment,
\* rating_override, confidence, and the sentiment and score of the hygiene,
\* safety and service aspects: every other field of the record (rating,
\* urgent, urgency_reason, severity_score, matched_patterns, the llm_ audit
\* fields), the set of aspects, every aspect's mentions and the entries of
\* all other aspects are unchanged; rating_override is never reset from
\* true to false and confidence is never raised.
C30_EnforceFrame ==
    Enforced =>
        LET before == input
            after == results[Len(results)]
        IN  /\ DOMAIN after = DOMAIN before
            /\ \A f \in DOMAIN before \ EnforcedFields : after[f] = before[f]
            /\ DOMAIN after.aspect_sentiments = DOMAIN before.aspect_sentiments
            /\ \A a \in DOMAIN before.aspect_sentiments :
                   /\ after.aspect_sentiments[a].mentions =
                          before.aspect_sentiments[a].mentions
                   /\ DOMAIN after.aspect_sentiments[a] =
                          DOMAIN before.aspect_sentiments[a]
                   /\ a \notin EnforcedAspects =>
                          after.aspect_sentiments[a] = before.aspect_sentiments[a]
            /\ before.rating_override => after.rating_override
            /\ ConfidenceRank(after.confidence) <= ConfidenceRank(before.confidence)

\* enforce_contract has rewritten the label and an aspect it covers of a
\* fused record that also holds an aspect it does not cover.
C30_Witness ==
    /\ Enforced
    /\ llm_result # NoOpinion
    /\ input.overall_sentiment # results[Len(results)].overall_sentiment
    /\ \E a \in DOMAIN input.aspect_sentiments \cap EnforcedAspects :
           input.aspect_sentiments[a] # results[Len(results)].aspect_sentiments[a]
    /\ \E a \in DOMAIN input.aspect_sentiments : a \notin EnforcedAspects

====
